---- MODULE Spec2Model ----
(***************************************************************************)
(* EchoScan: the EchoVerifier pipeline, the vault it logs to, the thread   *)
(* pool that runs verify calls concurrently, and the quarantine manager.   *)
(*                                                                         *)
(* Numbers are fixed point, because the model checker has 32-bit integers: *)
(*   delta_s, echo_sense and the glyph weights  in units of 10^-6 (micro)  *)
(*   fold vector components                     in units of 10^-4          *)
(*   cosine similarity                          in units of 10^-3 (milli)  *)
(* A text is the sequence of the code points of its characters.            *)
(***************************************************************************)
EXTENDS Integers, Sequences, FiniteSets, TLC

(***************************************************************************)
(* Bounds of the model.                                                    *)
(***************************************************************************)
NumThreads == 2
MaxCalls == 2
SeqCalls == 12
MaxSwitches == 2
MaxFaults == 4
NumSeeds == 2
NumDetectors == 2
MaxClock == 3
MaxLen == 3
MaxRecords == 3

Threads == 1..NumThreads
Seeds == 1..NumSeeds

(***************************************************************************)
(* Input texts: "", "a", "b", "aaa", "abc".                                *)
(***************************************************************************)
Texts == { <<>>, <<97>>, <<98>>, <<97, 97, 97>>, <<97, 98, 99>> }

(***************************************************************************)
(* Arithmetic helpers.                                                     *)
(***************************************************************************)
Abs(x) == IF x < 0 THEN -x ELSE x

Min(a, b) == IF a < b THEN a ELSE b

Max(a, b) == IF a > b THEN a ELSE b

\* round(num / den) for num >= 0, den > 0
RoundDiv(num, den) == (2 * num + den) \div (2 * den)

RECURSIVE SumSeq(_)
SumSeq(s) == IF s = <<>> THEN 0 ELSE Head(s) + SumSeq(Tail(s))

RECURSIVE ISqrtIn(_, _, _)
ISqrtIn(x, lo, hi) ==
    IF lo >= hi THEN lo
    ELSE LET mid == (lo + hi + 1) \div 2
         IN  IF mid * mid <= x THEN ISqrtIn(x, mid, hi) ELSE ISqrtIn(x, lo, mid - 1)

\* math.sqrt on the fixed-point sum of squares (floor of the square root)
ISqrt(x) == ISqrtIn(x, 0, 46340)

Range(s) == { s[i] : i \in 1..Len(s) }

(***************************************************************************)
(* hash(): the built-in string hash, keyed by a per-process seed.  It is   *)
(* fixed for the life of the process and differs between processes.        *)
(* HashText(seed, text) stands for abs(hash(text)) % 10000 and             *)
(* HashGlyph(seed, text) for hash(glyph_id + text) % 1000.                 *)
(***************************************************************************)
HashText(seed, text) ==
    (seed * 7919 + SumSeq(text) * 131 + Len(text) * 977) % 10000

HashGlyph(seed, text) ==
    (seed * 367 + SumSeq(text) * 353 + Len(text) * 11) % 1000

(***************************************************************************)
(* detectors/delta_s.py                                                    *)
(***************************************************************************)
WindowSizes == <<3, 5, 10, 15, 20>>

\* math.log(window_size + 1), in micro units
LogWeight(w) ==
    CASE w = 3 -> 1386294
      [] w = 5 -> 1791759
      [] w = 10 -> 2397895
      [] w = 15 -> 2772589
      [] w = 20 -> 3044522

\* sum(abs(window[j] - window[j-1])) of the window of size w starting at i
WindowAbsSum(text, i, w) ==
    SumSeq([j \in 1..(w - 1) |-> Abs(text[i + j] - text[i + j - 1])])

\* one weighted window delta: window_delta / (len(window) - 1) * weight
WindowDelta(text, i, w) == (WindowAbsSum(text, i, w) * LogWeight(w)) \div (w - 1)

\* all_deltas: every window of every window size that fits in the text
AllDeltas(text) ==
    { <<w, i>> \in Range(WindowSizes) \X (1..Len(text)) :
          Len(text) >= w /\ i <= Len(text) - w + 1 }

RECURSIVE SumDeltas(_, _)
SumDeltas(text, ws) ==
    IF ws = {} THEN 0
    ELSE LET x == CHOOSE y \in ws : TRUE
         IN  WindowDelta(text, x[2], x[1]) + SumDeltas(text, ws \ {x})

\* delta_s.run(input)["delta_s"], micro units
DeltaS(seed, text) ==
    IF Len(text) = 0 THEN 0
    ELSE IF AllDeltas(text) # {}
         THEN RoundDiv(SumDeltas(text, AllDeltas(text)), Cardinality(AllDeltas(text)))
         ELSE (HashText(seed, text) % 1000) * 10

(***************************************************************************)
(* detectors/glyph.py: glyph_id = "GHX-" + four upper-case hex digits      *)
(***************************************************************************)
HexDigits == <<"0", "1", "2", "3", "4", "5", "6", "7",
               "8", "9", "A", "B", "C", "D", "E", "F">>

RECURSIVE HexOf(_)
HexOf(n) == IF n < 16 THEN <<HexDigits[n + 1]>>
            ELSE Append(HexOf(n \div 16), HexDigits[(n % 16) + 1])

RECURSIVE ZeroPad(_, _)
ZeroPad(s, width) == IF Len(s) >= width THEN s ELSE ZeroPad(<<"0">> \o s, width)

\* f"{n:X}", with no padding
FormatX(n) == HexOf(n)

\* f"{n:04X}"
Format04X(n) == ZeroPad(HexOf(n), 4)

GlyphId(seed, text) == <<"G", "H", "X", "-">> \o Format04X(HashText(seed, text))

(***************************************************************************)
(* echoverifier.py: EchoFold                                               *)
(***************************************************************************)
FoldDim == 16

\* sbsm.run returns no "sbsh_hash" key, so verify always gets the default ""
SbshHash == <<>>

\* combined[i::16] for the 0-based offset i
EveryNth(combined, i) ==
    [k \in 1..((Len(combined) - i + FoldDim - 1) \div FoldDim) |->
        combined[i + 1 + (k - 1) * FoldDim]]

\* EchoFold.generate_vector; defined for a non-empty combined string only
GenerateVector(text, hash) ==
    LET combined == text \o hash
    IN  [i \in 1..FoldDim |->
            RoundDiv(SumSeq(EveryNth(combined, i - 1)) * i * 10000,
                     Len(combined) * 255)]

Dot(v1, v2) == SumSeq([i \in 1..Len(v1) |-> v1[i] * v2[i]])

\* round(num / den, 3) in milli units, by long division
DivMilli(num, den) ==
    LET q0 == num \div den
        r0 == num % den
        d1 == (r0 * 10) \div den
        r1 == (r0 * 10) % den
        d2 == (r1 * 10) \div den
        r2 == (r1 * 10) % den
        d3 == (r2 * 10) \div den
        r3 == (r2 * 10) % den
    IN  q0 * 1000 + d1 * 100 + d2 * 10 + d3 + (IF 2 * r3 >= den THEN 1 ELSE 0)

\* a similarity normalised by the first vector alone
CosineSimilarityByFirst(vec1, vec2) ==
    IF Len(vec1) # Len(vec2) THEN 0
    ELSE LET norm1 == ISqrt(Dot(vec1, vec1))
         IN  IF norm1 = 0 THEN 0
             ELSE DivMilli(Dot(vec1, vec2), norm1 * norm1)

\* EchoFold.cosine_similarity, milli units
CosineSimilarity(vec1, vec2) ==
    IF Len(vec1) # Len(vec2) THEN 0
    ELSE LET norm1 == ISqrt(Dot(vec1, vec1))
             norm2 == ISqrt(Dot(vec2, vec2))
         IN  IF norm1 = 0 \/ norm2 = 0 THEN 0
             ELSE DivMilli(Dot(vec1, vec2), norm1 * norm2)

(***************************************************************************)
(* detectors/sbsm.py: the digit-sum drift matrix.  Drifts are in units of  *)
(* 10^-4; the dash of the status texts is written "-".                     *)
(***************************************************************************)
Bases == 6..9

RECURSIVE DigitSumBase(_, _)
DigitSumBase(value, base) ==
    IF value = 0 THEN 0
    ELSE (value % base) + DigitSumBase(value \div base, base)

\* calculate_digit_sum_sequences, for one base
DigitSums(text, base) == [i \in 1..Len(text) |-> DigitSumBase(text[i], base)]

\* sum(differences) of calculate_entropy_drift, with the differences signed
SumSignedDifferences(digit_sums) ==
    SumSeq([i \in 1..(Len(digit_sums) - 1) |-> digit_sums[i + 1] - digit_sums[i]])

\* sum(differences) of calculate_entropy_drift
SumDifferences(digit_sums) ==
    SumSeq([i \in 1..(Len(digit_sums) - 1) |-> Abs(digit_sums[i + 1] - digit_sums[i])])

\* the sum over the bases of sum(differences); every per-base drift is this
\* sum divided by len - 1, and 0 for fewer than two characters
SumOverBases(text) ==
    SumDifferences(DigitSums(text, 6)) + SumDifferences(DigitSums(text, 7))
    + SumDifferences(DigitSums(text, 8)) + SumDifferences(DigitSums(text, 9))

\* detect_anomaly, on the per-base sums S[b] and n = len - 1 >= 1
DetectAnomaly(S, total, n) ==
    LET high == { b \in Bases : 1000 * S[b] > 12 * n /\ 40 * S[b] > total }
        spread == (4 * S[6] - total) * (4 * S[6] - total)
                  + (4 * S[7] - total) * (4 * S[7] - total)
                  + (4 * S[8] - total) * (4 * S[8] - total)
                  + (4 * S[9] - total) * (4 * S[9] - total)
    IN  IF 1000 * total < 4 * n THEN "Synthetic - Suspicious uniformity"
        ELSE IF total > 40 * n THEN "Synthetic - Extreme drift detected"
        ELSE IF 100 * spread < 64 * n * n /\ 2 * total > 4 * n
             THEN "Borderline - Uniform cross-base pattern"
        ELSE IF high = {} THEN "Authentic - Stable drift"
        ELSE IF Cardinality(high) <= 2 THEN "Authentic - Normal variation"
        ELSE "Borderline - Elevated drift pattern"

\* sbsm_matrix past its check of the input: steps 1 to 7
ComputeMatrix(text) ==
    LET n == Max(Len(text) - 1, 1)
        S == [b \in Bases |-> SumDifferences(DigitSums(text, b))]
        total == SumOverBases(text)
    IN  [ delta_s |-> RoundDiv(total * 10000, 4 * n),
          per_base |-> [b \in Bases |-> RoundDiv(S[b] * 10000, n)],
          status |-> DetectAnomaly(S, total, n) ]

\* an sbsm_matrix without the test for the empty input
SbsmMatrixUnguarded(text) == ComputeMatrix(text)

\* sbsm_matrix
SbsmMatrix(text) ==
    IF text = <<>>
    THEN [ delta_s |-> 0, per_base |-> [b \in Bases |-> 0],
           status |-> "Error - Empty input" ]
    ELSE ComputeMatrix(text)

(***************************************************************************)
(* echoverifier.py: GlyphFamily, AncestryDepth, EchoSense                  *)
(***************************************************************************)
\* GlyphFamily.FAMILIES in dictionary order; threshold in milli, weight in micro
FAMILIES == << [family |-> "standard", threshold |-> 700, weight |-> 1000000],
               [family |-> "synthetic", threshold |-> 300, weight |-> 200000],
               [family |-> "hybrid", threshold |-> 500, weight |-> 600000],
               [family |-> "anomalous", threshold |-> 100, weight |-> 100000] >>

RECURSIVE FirstFamily(_, _)
FirstFamily(pattern_score, k) ==
    IF k > Len(FAMILIES) THEN [family |-> "anomalous", weight |-> 100000]
    ELSE IF pattern_score >= FAMILIES[k].threshold
         THEN [family |-> FAMILIES[k].family, weight |-> FAMILIES[k].weight]
         ELSE FirstFamily(pattern_score, k + 1)

\* GlyphFamily.classify_glyph: the first family whose threshold is reached
ClassifyGlyph(seed, text) == FirstFamily(HashGlyph(seed, text), 1)

\* AncestryDepth.calculate_depth
\* (complexity + hash_entropy) * 5 as the fraction DepthNum / DepthDen; a
\* term is 0 for an empty string
DepthDen(text, hash) == Max(Len(text), 1) * Max(Len(hash), 1)

DepthNum(text, hash) ==
    (Cardinality(Range(text)) * Max(Len(hash), 1)
     + Cardinality(Range(hash)) * Max(Len(text), 1)) * 5

\* round(num / den) of Python 3: to the nearest integer, a half to the even one
RoundHalfEven(num, den) ==
    LET q == num \div den
        twice == 2 * (num % den)
    IN  IF twice > den THEN q + 1
        ELSE IF twice < den THEN q
        ELSE IF q % 2 = 0 THEN q ELSE q + 1

\* a depth rounded to the nearest integer
CalculateDepthRounded(text, hash) ==
    Min(Max(RoundHalfEven(DepthNum(text, hash), DepthDen(text, hash)), 1), 10)

\* AncestryDepth.calculate_depth: int() truncates
CalculateDepth(text, hash) ==
    Min(Max(DepthNum(text, hash) \div DepthDen(text, hash), 1), 10)

\* EchoSense.calculate_trust_score; delta_s micro, fold_similarity milli,
\* glyph_weight micro; result micro
CalculateTrustScore(delta_s, fold_similarity, glyph_weight, ancestry_depth) ==
    LET delta_component == Max(0, 1000000 - delta_s * 10)
        fold_component == fold_similarity * 1000
        ancestry_component ==
            IF 3 <= ancestry_depth /\ ancestry_depth <= 7 THEN 1000000
            ELSE IF ancestry_depth < 3 THEN RoundDiv(ancestry_depth * 1000000, 3)
            ELSE Max(300000, 1000000 - (ancestry_depth - 7) * 100000)
        score == (delta_component * 3 + fold_component * 3
                  + glyph_weight * 2 + ancestry_component * 2) \div 10
    IN  Min(Max(score, 0), 1000000)

\* EchoVerifier._check_vault_permission
\* a permission check that takes any ancestry
CheckVaultPermissionAnyDepth(echo_sense_score, ancestry_depth) ==
    echo_sense_score > 500000 /\ ancestry_depth >= 1

CheckVaultPermission(echo_sense_score, ancestry_depth) ==
    echo_sense_score > 500000 /\ ancestry_depth >= 2

(***************************************************************************)
(* echoverifier.py: module verdicts and the consensus vote                 *)
(***************************************************************************)
Verdicts == {"Authentic", "Plausible", "Hallucination", "Ambiguous"}

\* EchoVerifier._get_module_verdicts: the votes of delta_s, echofold, glyph,
\* ancestry and echosense, in that order
GetModuleVerdicts(delta_s, fold_similarity, family, ancestry_depth, echo_sense) ==
    << IF delta_s < 10000 THEN "Authentic"
       ELSE IF delta_s > 50000 THEN "Hallucination" ELSE "Plausible",
       IF fold_similarity > 850 THEN "Authentic"
       ELSE IF fold_similarity < 300 THEN "Hallucination" ELSE "Plausible",
       IF family = "standard" THEN "Authentic"
       ELSE IF family = "synthetic" THEN "Hallucination" ELSE "Plausible",
       IF ancestry_depth >= 3 THEN "Authentic"
       ELSE IF ancestry_depth < 2 THEN "Hallucination" ELSE "Plausible",
       IF echo_sense > 800000 THEN "Authentic"
       ELSE IF echo_sense < 300000 THEN "Hallucination" ELSE "Plausible" >>

\* verdict_counts[v]
VerdictCount(module_verdicts, v) ==
    Cardinality({ i \in 1..Len(module_verdicts) : module_verdicts[i] = v })

MaxCount(module_verdicts) ==
    CHOOSE c \in 1..Len(module_verdicts) :
        /\ \E i \in 1..Len(module_verdicts) :
               VerdictCount(module_verdicts, module_verdicts[i]) = c
        /\ \A i \in 1..Len(module_verdicts) :
               VerdictCount(module_verdicts, module_verdicts[i]) <= c

\* the labels whose count is max_count
TiedVerdicts(module_verdicts) ==
    { module_verdicts[i] : i \in
        { j \in 1..Len(module_verdicts) :
            VerdictCount(module_verdicts, module_verdicts[j]) = MaxCount(module_verdicts) } }

\* the first label, in order of first vote, whose count is max_count
MaxVerdict(module_verdicts) ==
    LET first == CHOOSE i \in 1..Len(module_verdicts) :
                   /\ VerdictCount(module_verdicts, module_verdicts[i])
                        = MaxCount(module_verdicts)
                   /\ \A j \in 1..(i - 1) :
                        VerdictCount(module_verdicts, module_verdicts[j])
                          # MaxCount(module_verdicts)
    IN  module_verdicts[first]

\* a vote that settles ties by the first label with the highest count
DetermineVerdictFirstMax(module_verdicts) ==
    [ verdict |-> MaxVerdict(module_verdicts),
      consensus |-> IF 2 * MaxCount(module_verdicts) > Len(module_verdicts)
                    THEN "Strong" ELSE "Weak" ]

\* EchoVerifier._determine_verdict_with_consensus
DetermineVerdictWithConsensus(module_verdicts) ==
    LET total_modules == Len(module_verdicts)
        max_count == MaxCount(module_verdicts)
    IN  IF 2 * max_count > total_modules
        THEN [verdict |-> MaxVerdict(module_verdicts), consensus |-> "Strong"]
        ELSE IF Cardinality(TiedVerdicts(module_verdicts)) > 1
                \/ 3 * max_count <= total_modules
        THEN [verdict |-> "Ambiguous", consensus |-> "Ambiguous"]
        ELSE [verdict |-> MaxVerdict(module_verdicts), consensus |-> "Weak"]

(***************************************************************************)
(* echoverifier.py: the rolling reference vector                           *)
(***************************************************************************)
RefWindow == 10

\* the fallback baseline, units of 10^-4
BaselineVector == << 4000, 6000, 5000, 3000, 7000, 5000, 6000, 4000,
                     5000, 7000, 3000, 6000, 5000, 4000, 7000, 5000 >>

\* a reference drawn from the whole vault
RecentEntriesAll(es) == es

\* vault.entries[-10:]
RecentEntries(es) == SubSeq(es, Max(1, Len(es) - RefWindow + 1), Len(es))

\* the entries of a list whose verdict is "Authentic" and that hold a fold vector
AuthenticVectors(es) ==
    SelectSeq(es, LAMBDA e : e.verdict = "Authentic" /\ e.fold_vector # <<>>)

\* the component-wise arithmetic mean of the fold vectors of the entries es
AverageVector(es) ==
    [i \in 1..Len(es[1].fold_vector) |->
        RoundDiv(SumSeq([k \in 1..Len(es) |-> es[k].fold_vector[i]]), Len(es))]

\* EchoVerifier._get_reference_vector
GetReferenceVector(es) ==
    IF es # <<>> /\ AuthenticVectors(RecentEntries(es)) # <<>>
    THEN AverageVector(AuthenticVectors(RecentEntries(es)))
    ELSE BaselineVector

(***************************************************************************)
(* echoverifier.py: the result of verify and the vault entry built from it *)
(***************************************************************************)
Unset == -1

\* the pure part of EchoVerifier.verify: everything but the vault reference,
\* computed against the vault entries es read by _get_reference_vector
ComputeResult(sd, text, es) ==
    LET delta_s_value == DeltaS(sd, text)
        fold_vector == GenerateVector(text, SbshHash)
        fold_similarity == CosineSimilarity(fold_vector, GetReferenceVector(es))
        glyph_classification == ClassifyGlyph(sd, text)
        ancestry_depth == CalculateDepth(text, SbshHash)
        echo_sense_score == CalculateTrustScore(delta_s_value, fold_similarity,
                                glyph_classification.weight, ancestry_depth)
        decided == DetermineVerdictWithConsensus(
                       GetModuleVerdicts(delta_s_value, fold_similarity,
                           glyph_classification.family, ancestry_depth,
                           echo_sense_score))
    IN  [ input |-> text,
          raised |-> FALSE,
          verdict |-> decided.verdict,
          consensus |-> decided.consensus,
          delta_s |-> delta_s_value,
          fold_vector |-> fold_vector,
          fold_similarity |-> fold_similarity,
          glyph_id |-> GlyphId(sd, text),
          ancestry_depth |-> ancestry_depth,
          echo_sense |-> echo_sense_score,
          vault_permission |-> CheckVaultPermission(echo_sense_score, ancestry_depth),
          vault_ref |-> Unset,
          downstream |-> FALSE ]

\* what the caller of verify sees when generate_vector divides by zero
RaisedResult(text) ==
    [ input |-> text, raised |-> TRUE, verdict |-> "None", consensus |-> "None",
      delta_s |-> 0, fold_vector |-> <<>>, fold_similarity |-> 0,
      glyph_id |-> <<>>, ancestry_depth |-> 0, echo_sense |-> 0,
      vault_permission |-> FALSE, vault_ref |-> Unset, downstream |-> FALSE ]

\* the vault_entry dict of verify; "echoverifier" is the result dict itself
VaultEntry(result) ==
    [ input |-> result.input,
      verdict |-> result.verdict,
      fold_vector |-> result.fold_vector,
      fold_similarity |-> result.fold_similarity,
      vault_id |-> Unset,
      backup |-> FALSE,
      vault_ref |-> Unset,
      arcs |-> Unset ]

\* a dict without an "echoverifier" key, as logged through safe_log
DataEntry ==
    [ input |-> <<>>, verdict |-> "None", fold_vector |-> <<>>,
      fold_similarity |-> 0, vault_id |-> Unset, backup |-> FALSE,
      vault_ref |-> Unset, arcs |-> Unset ]

(***************************************************************************)
(* vault/vault.py: the global Vault                                        *)
(***************************************************************************)
MaxRetries == 3

RetryDelay == 1

RECURSIVE Pow2(_)
Pow2(n) == IF n = 0 THEN 1 ELSE 2 * Pow2(n - 1)

\* the sleep after a failed attempt: retry_delay * (2 ** attempt)
\* a linear back-off, as VaultFailsafe.safe_vault_log has it
BackoffDelayLinear(attempt) == RetryDelay * (attempt + 1)

BackoffDelay(attempt) == RetryDelay * Pow2(attempt)

\* self.entries.append(results)
\* a vault that keeps the newest entry first
AppendEntryFront(es, e) == << e >> \o es

AppendEntry(es, e) == Append(es, e)

\* Vault.last_entry_ref: the number in f"vault_entry_{len(self.entries)}"
LastEntryRef(es) == Len(es)

\* Vault.safe_log: the emergency backup is tried for critical data that
\* log() could not store
\* an emergency backup of all critical data, logged or not
NeedsEmergencyAlways(success, critical) == critical

NeedsEmergency(success, critical) == (~success) /\ critical

(***************************************************************************)
(* State                                                                   *)
(***************************************************************************)
VARIABLES
    seed,             \* the hash seed of this process
    backup_enabled,   \* Vault.backup_enabled
    entries,          \* Vault.entries
    lock,             \* Vault.lock: 0 when free, else the holding thread
    log_attempts,     \* Vault statistics
    successful_logs,
    failed_logs,
    backup_writes,
    th,               \* per thread: program counter and locals
    results,          \* the results returned by verify, in completion order
    calls,            \* number of calls submitted so far
    enable_downstream,\* the enable_downstream knob of the batch request
    vote,             \* the last consensus vote evaluated on its own
    quarantine,       \* the last outcome of QuarantineManager.process_result
    faults,           \* how many times the simulated vault failure has struck
    pipeline,         \* the run of main.run_pipeline in progress
    registry,         \* the DetectorRegistry: its config and what it holds
    config,           \* the ConfigManager and its configuration file
    probe,            \* glyph ids and ancestry depths computed on their own
    monitor           \* the PerformanceMonitor, its callers and the clock

vars == << seed, backup_enabled, entries, lock, log_attempts, successful_logs,
           failed_logs, backup_writes, th, results, calls, enable_downstream,
           vote, quarantine, faults, pipeline, registry, config, probe, monitor >>

\* the detector side of the program
tools == << pipeline, registry, config, probe, monitor >>

\* what the vault and the verifier never touch
aside == << enable_downstream, vote, quarantine, faults, tools >>

stats == << log_attempts, successful_logs, failed_logs, backup_writes >>

\* the locals of a thread that is running no call
\*   ref: reference_vector of verify      idx: position of entry in
\*   reg: the value read by a "+= 1"           vault.entries, 0 if not there
\*   trace: the stages tried by log/safe_log, delays: the sleeps of log
IdleThread ==
    [ pc |-> "idle", kind |-> "none", critical |-> FALSE,
      ref |-> <<>>, result |-> RaisedResult(<<>>), entry |-> DataEntry,
      attempt |-> 0, reg |-> 0, idx |-> 0, ok |-> FALSE,
      trace |-> <<>>, delays |-> <<>> ]

NoInputs ==
    [ delta_s |-> 0, fold_similarity |-> 0, family |-> "none",
      ancestry_depth |-> 0, echo_sense |-> 0 ]

NoVote == [inputs |-> NoInputs, votes |-> <<>>, verdict |-> "None", consensus |-> "None"]

EmptyDict == [k \in {} |-> 0]

NoQuarantine ==
    [ text |-> <<>>, result |-> EmptyDict, processed |-> FALSE,
      quarantined |-> FALSE, filepath |-> "None", error |-> FALSE ]

\* what a detector puts under a key of its output: nothing, None, a number
\* (in units of 10^-6) or a text that is no number
Absent == [type |-> "absent", v |-> 0]

NoneVal == [type |-> "none", v |-> 0]

Word == [type |-> "str", v |-> 0]

Float(n) == [type |-> "float", v |-> n]

\* what calling a detector does: it returns a dict (kind "dict"), returns
\* None (kind "none") or raises (kind "raises")
Output(kind, penalty, modifier) ==
    [ kind |-> kind, echo_score_penalty |-> penalty, echo_score_modifier |-> modifier ]

NoOutput == Output("none", Absent, Absent)

\* no call of run_pipeline or run_detectors yet
NoPipeline ==
    [ pc |-> "idle", text |-> <<>>, modules |-> <<>>, detectors |-> <<>>,
      cursor |-> 0, detector_results |-> <<>>,
      echoverifier |-> [error |-> "", echo_sense |-> Absent, verdict |-> ""],
      out |-> [error |-> FALSE, EchoScore |-> 0, Decision |-> "None"] ]

\* no DetectorRegistry constructed
NoRegistry ==
    [ config |-> <<>>, cursor |-> 0, detectors |-> <<>>, loaded_modules |-> {},
      ran |-> [name |-> 0, result |-> NoOutput] ]

\* no ConfigManager constructed
\*   file: the configuration file (exists: whether it is there, valid:
\*         whether it holds JSON)
\*   reloaded: reload_config has returned since the file was last written
\*   read, got: a getter was called since then, and what it returned
\*   before: config_data and last_modified when the last load began
\*   failed: the last load did not succeed
\*   notified: the last load called the change callbacks
NoConfig ==
    [ file |-> [data |-> EmptyDict, valid |-> FALSE, mtime |-> 0, exists |-> FALSE],
      clock |-> 0,
      config_data |-> EmptyDict, last_modified |-> 0, pc |-> "idle",
      new_config |-> EmptyDict, reloaded |-> FALSE, read |-> FALSE,
      got |-> EmptyDict,
      before |-> [config_data |-> EmptyDict, last_modified |-> 0],
      failed |-> FALSE, notified |-> FALSE ]

\* nothing to compute
\*   vector, raised: what generate_vector returned for the first text, or
\*   that it raised; a, b, sims: two vectors and their cosine similarities
\*   in both orders; matrix: what sbsm_matrix returned for the first text
NoProbe ==
    [ first |-> <<>>, second |-> <<>>, hash |-> <<>>, ids |-> <<>>, depth |-> 0,
      vector |-> <<>>, raised |-> FALSE, a |-> <<>>, b |-> <<>>, sims |-> <<>>,
      matrix |-> [status |-> ""] ]

\* the two alert keys of the one operation measured, "verify"
AlertKeys == {"absolute_latency_verify", "spike_verify"}

\* a caller of record_measurement that is not in a call
\*   current_time: time.time() of _check_alerts
\*   last_alert: what _should_send_alert read from last_alert_time
IdleCaller == [pc |-> "idle", latency |-> 0, current_time |-> 0, last_alert |-> 0]

\* no PerformanceMonitor in use
\*   measurements: the latencies of the deque, oldest first
\*   last_alert_time: 0 for a key the dictionary does not hold
\*   alerts: the alerts sent, each with its key and its current_time
NoMonitor ==
    [ clock |-> 0, measurements |-> <<>>, total_requests |-> 0, total_time |-> 0,
      last_alert_time |-> [k \in AlertKeys |-> 0], alerts |-> <<>>,
      recorded |-> 0, caller |-> [t \in Threads |-> IdleCaller] ]

ToolsIdle ==
    /\ pipeline = NoPipeline
    /\ registry = NoRegistry
    /\ config = NoConfig
    /\ probe = NoProbe
    /\ monitor = NoMonitor

\* vault = Vault() with no entry yet, and a pool with no call running
VaultIdle ==
    /\ entries = <<>>
    /\ lock = 0
    /\ log_attempts = 0
    /\ successful_logs = 0
    /\ failed_logs = 0
    /\ backup_writes = 0
    /\ th = [t \in Threads |-> IdleThread]
    /\ results = <<>>
    /\ calls = 0
    /\ faults = 0

\* the state after import: vault = Vault() has backup_enabled = True
Init ==
    /\ seed \in Seeds
    /\ backup_enabled = TRUE
    /\ enable_downstream \in BOOLEAN
    /\ vote = NoVote
    /\ quarantine = NoQuarantine
    /\ VaultIdle
    /\ ToolsIdle

Event(stage, ok) == [stage |-> stage, ok |-> ok]

(***************************************************************************)
(* EchoVerifier.verify, run by a pool thread (api.py batch_verify submits  *)
(* echoverifier.run to a ThreadPoolExecutor)                               *)
(***************************************************************************)
\* verify on the empty text: generate_vector divides by len(combined) = 0 and
\* the exception leaves verify before the vault is touched
VerifyRaise(t, cap, texts) ==
    /\ th[t].pc = "idle"
    /\ calls < cap
    /\ \E text \in texts :
        /\ Len(text \o SbshHash) = 0
        /\ results' = Append(results, RaisedResult(text))
    /\ calls' = calls + 1
    /\ UNCHANGED << aside, seed, backup_enabled, entries, lock, stats, th >>

\* verify up to the call of vault.log: _get_reference_vector reads
\* vault.entries without taking the lock
VerifyCompute(t, cap, texts) ==
    /\ th[t].pc = "idle"
    /\ calls < cap
    /\ \E text \in texts :
        /\ Len(text \o SbshHash) > 0
        /\ LET result == ComputeResult(seed, text, entries)
           IN  th' = [th EXCEPT ![t] =
                        [ IdleThread EXCEPT
                            !.pc = "log_count_read",
                            !.kind = "verify",
                            !.ref = GetReferenceVector(entries),
                            !.result = result,
                            !.entry = VaultEntry(result) ]]
    /\ calls' = calls + 1
    /\ UNCHANGED << aside, seed, backup_enabled, entries, lock, stats, results >>

\* Vault.safe_log(results, critical) called with a plain dict
SafeLogStart(t, cap) ==
    /\ th[t].pc = "idle"
    /\ calls < cap
    /\ \E critical \in BOOLEAN :
        th' = [th EXCEPT ![t] =
                 [ IdleThread EXCEPT
                     !.pc = "log_count_read",
                     !.kind = "safe_log",
                     !.critical = critical ]]
    /\ calls' = calls + 1
    /\ UNCHANGED << aside, seed, backup_enabled, entries, lock, stats, results >>

(***************************************************************************)
(* Vault.log                                                               *)
(***************************************************************************)
\* self.log_attempts += 1 is a read and a write with no lock held
LogCountRead(t) ==
    /\ th[t].pc = "log_count_read"
    /\ th' = [th EXCEPT ![t].reg = log_attempts, ![t].pc = "log_count_write"]
    /\ UNCHANGED << aside, seed, backup_enabled, entries, lock, stats, results, calls >>

LogCountWrite(t) ==
    /\ th[t].pc = "log_count_write"
    /\ log_attempts' = th[t].reg + 1
    /\ th' = [th EXCEPT ![t].attempt = 0, ![t].reg = 0, ![t].pc = "try"]
    /\ UNCHANGED << aside, seed, backup_enabled, entries, lock, successful_logs,
                    failed_logs, backup_writes, results, calls >>

\* _try_vault_log succeeds: it reads len(self.entries), without the lock,
\* for the vault_id
TryVaultLogOk(t) ==
    /\ th[t].pc = "try"
    /\ th' = [th EXCEPT ![t].entry.vault_id = Len(entries) + 1,
                        ![t].trace = Append(@, Event("main", TRUE)),
                        ![t].pc = "acquire"]
    /\ UNCHANGED << aside, seed, backup_enabled, entries, lock, stats, results, calls >>

\* _try_vault_log raises (the simulated failure); sleep and retry, or give
\* up on the main vault after the last attempt
TryVaultLogFail(t) ==
    /\ th[t].pc = "try"
    /\ faults < MaxFaults
    /\ faults' = faults + 1
    /\ IF th[t].attempt < MaxRetries
       THEN th' = [th EXCEPT ![t].trace = Append(@, Event("main", FALSE)),
                             ![t].delays = Append(@, BackoffDelay(th[t].attempt)),
                             ![t].attempt = @ + 1]
       ELSE th' = [th EXCEPT ![t].trace = Append(@, Event("main", FALSE)),
                             ![t].pc = "backup"]
    /\ UNCHANGED << enable_downstream, vote, quarantine, tools, seed, backup_enabled,
                    entries, lock, stats, results, calls >>

\* with self.lock: (in log and in _backup_log)
AcquireLock(t) ==
    /\ th[t].pc \in {"acquire", "backup_acquire"}
    /\ lock = 0
    /\ lock' = t
    /\ th' = [th EXCEPT ![t].pc = IF th[t].pc = "acquire" THEN "append"
                                  ELSE "backup_append"]
    /\ UNCHANGED << aside, seed, backup_enabled, entries, stats, results, calls >>

\* self.entries.append(results); self.successful_logs += 1; return True
LogAppend(t) ==
    /\ th[t].pc = "append"
    /\ entries' = AppendEntry(entries, th[t].entry)
    /\ successful_logs' = successful_logs + 1
    /\ lock' = 0
    /\ th' = [th EXCEPT ![t].idx = Len(entries) + 1, ![t].ok = TRUE,
                        ![t].pc = "logged"]
    /\ UNCHANGED << aside, seed, backup_enabled, log_attempts, failed_logs, backup_writes,
                    results, calls >>

(***************************************************************************)
(* Vault._backup_log                                                       *)
(***************************************************************************)
\* if not self.backup_enabled: the backup stage yields failure at once
BackupDisabled(t) ==
    /\ th[t].pc = "backup"
    /\ ~backup_enabled
    /\ th' = [th EXCEPT ![t].trace = Append(@, Event("backup", FALSE)),
                        ![t].pc = "fail_count_read"]
    /\ UNCHANGED << aside, seed, backup_enabled, entries, lock, stats, results, calls >>

\* writing the backup file raises
BackupWriteFail(t) ==
    /\ th[t].pc = "backup"
    /\ backup_enabled
    /\ th' = [th EXCEPT ![t].trace = Append(@, Event("backup", FALSE)),
                        ![t].pc = "fail_count_read"]
    /\ UNCHANGED << aside, seed, backup_enabled, entries, lock, stats, results, calls >>

\* the backup file is written
BackupWriteOk(t) ==
    /\ th[t].pc = "backup"
    /\ backup_enabled
    /\ th' = [th EXCEPT ![t].trace = Append(@, Event("backup", TRUE)),
                        ![t].pc = "backup_acquire"]
    /\ UNCHANGED << aside, seed, backup_enabled, entries, lock, stats, results, calls >>

\* under the lock: backup_metadata, entries.append, backup_writes += 1
BackupAppend(t) ==
    /\ th[t].pc = "backup_append"
    /\ entries' = AppendEntry(entries, [th[t].entry EXCEPT !.backup = TRUE])
    /\ backup_writes' = backup_writes + 1
    /\ lock' = 0
    /\ th' = [th EXCEPT ![t].entry.backup = TRUE, ![t].idx = Len(entries) + 1,
                        ![t].ok = TRUE, ![t].pc = "logged"]
    /\ UNCHANGED << aside, seed, backup_enabled, log_attempts, successful_logs, failed_logs,
                    results, calls >>

\* self.failed_logs += 1 is a read and a write with no lock held
FailCountRead(t) ==
    /\ th[t].pc = "fail_count_read"
    /\ th' = [th EXCEPT ![t].reg = failed_logs, ![t].pc = "fail_count_write"]
    /\ UNCHANGED << aside, seed, backup_enabled, entries, lock, stats, results, calls >>

FailCountWrite(t) ==
    /\ th[t].pc = "fail_count_write"
    /\ failed_logs' = th[t].reg + 1
    /\ th' = [th EXCEPT ![t].ok = FALSE, ![t].reg = 0, ![t].pc = "logged"]
    /\ UNCHANGED << aside, seed, backup_enabled, entries, lock, log_attempts,
                    successful_logs, backup_writes, results, calls >>

(***************************************************************************)
(* EchoVerifier.verify after vault.log has returned                        *)
(***************************************************************************)
\* the thread's vault_entry dict is the very object held in vault.entries
\* when log() appended it: a store into it shows in the vault
StoreVaultRef(es, idx, ref) ==
    IF idx > 0 THEN [es EXCEPT ![idx].vault_ref = ref] ELSE es

StoreArcs(es, idx, ref) ==
    IF idx > 0 THEN [es EXCEPT ![idx].arcs = ref] ELSE es

\* result["vault_ref"] = vault.last_entry_ref(): len(self.entries), no lock
VerifyVaultRef(t) ==
    /\ th[t].pc = "logged"
    /\ th[t].kind = "verify"
    /\ LET ref == LastEntryRef(entries)
       IN  /\ entries' = StoreVaultRef(entries, th[t].idx, ref)
           /\ th' = [th EXCEPT ![t].result.vault_ref = ref,
                               ![t].entry.vault_ref = ref,
                               ![t].pc = IF enable_downstream THEN "arcs" ELSE "ret"]
    /\ UNCHANGED << aside, seed, backup_enabled, lock, stats, results, calls >>

\* enable_downstream: result["downstream"] = ..., then _log_symbolic_arcs
\* stores vault_entry["symbolic_arcs"] with arc_id from last_entry_ref()
LogSymbolicArcs(t) ==
    /\ th[t].pc = "arcs"
    /\ LET ref == LastEntryRef(entries)
       IN  /\ entries' = StoreArcs(entries, th[t].idx, ref)
           /\ th' = [th EXCEPT ![t].result.downstream = TRUE,
                               ![t].entry.arcs = ref,
                               ![t].pc = "ret"]
    /\ UNCHANGED << aside, seed, backup_enabled, lock, stats, results, calls >>

\* return result
VerifyReturn(t) ==
    /\ th[t].pc = "ret"
    /\ results' = Append(results, th[t].result)
    /\ th' = [th EXCEPT ![t] = IdleThread]
    /\ UNCHANGED << aside, seed, backup_enabled, entries, lock, stats, calls >>

(***************************************************************************)
(* Vault.safe_log after log() has returned, and Vault._emergency_backup    *)
(***************************************************************************)
\* if not success and critical: status["emergency_backup"] = ...
EmergencyBackupOk(t) ==
    /\ th[t].pc = "logged"
    /\ th[t].kind = "safe_log"
    /\ NeedsEmergency(th[t].ok, th[t].critical)
    /\ th' = [th EXCEPT ![t].trace = Append(@, Event("emergency", TRUE)),
                        ![t].pc = "status"]
    /\ UNCHANGED << aside, seed, backup_enabled, entries, lock, stats, results, calls >>

EmergencyBackupFail(t) ==
    /\ th[t].pc = "logged"
    /\ th[t].kind = "safe_log"
    /\ NeedsEmergency(th[t].ok, th[t].critical)
    /\ th' = [th EXCEPT ![t].trace = Append(@, Event("emergency", FALSE)),
                        ![t].pc = "status"]
    /\ UNCHANGED << aside, seed, backup_enabled, entries, lock, stats, results, calls >>

\* return status
SafeLogReturn(t) ==
    /\ th[t].kind = "safe_log"
    /\ \/ th[t].pc = "status"
       \/ th[t].pc = "logged" /\ ~NeedsEmergency(th[t].ok, th[t].critical)
    /\ th' = [th EXCEPT ![t] = IdleThread]
    /\ UNCHANGED << aside, seed, backup_enabled, entries, lock, stats, results, calls >>

(***************************************************************************)
(* Specifications                                                          *)
(***************************************************************************)
\* Vault.log and Vault._backup_log of the global vault, for thread t
VaultStep(t) ==
    \/ LogCountRead(t)
    \/ LogCountWrite(t)
    \/ TryVaultLogOk(t)
    \/ TryVaultLogFail(t)
    \/ AcquireLock(t)
    \/ LogAppend(t)
    \/ BackupWriteFail(t)
    \/ BackupWriteOk(t)
    \/ BackupAppend(t)
    \/ FailCountRead(t)
    \/ FailCountWrite(t)

\* a pool of NumThreads workers serving a batch of MaxCalls verify calls on
\* the global vault, with vault failures; the batch holds "", "a" and "b"
BatchTexts == { text \in Texts : Len(text) <= 1 }

Next ==
    \E t \in Threads :
        \/ VerifyRaise(t, MaxCalls, BatchTexts)
        \/ VerifyCompute(t, MaxCalls, BatchTexts)
        \/ VaultStep(t)
        \/ VerifyVaultRef(t)
        \/ LogSymbolicArcs(t)
        \/ VerifyReturn(t)

Spec == Init /\ [][Next]_vars

\* one caller verifying SeqCalls texts one after the other, in runs where
\* the simulated vault failure does not strike; the caller repeats a text
\* and changes to another text at most MaxSwitches times
Switches(es) == Cardinality({ i \in 1..(Len(es) - 1) : es[i].input # es[i + 1].input })

SeqTexts ==
    IF entries = <<>> \/ Switches(entries) < MaxSwitches
    THEN Texts \ {<<>>}
    ELSE {entries[Len(entries)].input}

NextSeq ==
    \/ VerifyCompute(1, SeqCalls, SeqTexts)
    \/ LogCountRead(1)
    \/ LogCountWrite(1)
    \/ TryVaultLogOk(1)
    \/ AcquireLock(1)
    \/ LogAppend(1)
    \/ VerifyVaultRef(1)
    \/ LogSymbolicArcs(1)
    \/ VerifyReturn(1)

\* verify(input_string) with enable_downstream left at its default
InitSeq == Init /\ enable_downstream = TRUE

SpecSeq == InitSeq /\ [][NextSeq]_vars

\* threads calling safe_log on a Vault constructed with either value of
\* backup_enabled
InitVault ==
    /\ seed \in Seeds
    /\ backup_enabled \in BOOLEAN
    /\ enable_downstream = TRUE
    /\ vote = NoVote
    /\ quarantine = NoQuarantine
    /\ VaultIdle
    /\ ToolsIdle

NextVault ==
    \E t \in Threads :
        \/ SafeLogStart(t, MaxCalls)
        \/ VaultStep(t)
        \/ BackupDisabled(t)
        \/ EmergencyBackupOk(t)
        \/ EmergencyBackupFail(t)
        \/ SafeLogReturn(t)

SpecVault == InitVault /\ [][NextVault]_vars

(***************************************************************************)
(* echoverifier.py: the consensus vote on its own, on sub-scores around    *)
(* the thresholds of the five modules                                      *)
(***************************************************************************)
DeltaSamples == {0, 9999, 10000, 50000, 50001}
SimilaritySamples == {0, 299, 300, 850, 851}
FamilySamples == {"standard", "synthetic", "hybrid", "anomalous"}
DepthSamples == 1..5
SenseSamples == {0, 299999, 300000, 800000, 800001}

VoteInputs ==
    [ delta_s : DeltaSamples, fold_similarity : SimilaritySamples,
      family : FamilySamples, ancestry_depth : DepthSamples,
      echo_sense : SenseSamples ]

InitConsensus ==
    /\ seed \in Seeds
    /\ backup_enabled = TRUE
    /\ enable_downstream = TRUE
    /\ vote \in { [NoVote EXCEPT !.inputs = inputs] : inputs \in VoteInputs }
    /\ quarantine = NoQuarantine
    /\ VaultIdle
    /\ ToolsIdle

\* module_verdicts = self._get_module_verdicts(...)
ModuleVerdicts ==
    /\ vote.votes = <<>>
    /\ vote' = [vote EXCEPT !.votes =
                    GetModuleVerdicts(vote.inputs.delta_s, vote.inputs.fold_similarity,
                                      vote.inputs.family, vote.inputs.ancestry_depth,
                                      vote.inputs.echo_sense)]
    /\ UNCHANGED << seed, backup_enabled, entries, lock, stats, th, results, calls,
                    enable_downstream, quarantine, faults, tools >>

\* verdict, consensus_status = self._determine_verdict_with_consensus(module_verdicts)
ConsensusVerdict ==
    /\ vote.votes # <<>>
    /\ vote.verdict = "None"
    /\ LET outcome == DetermineVerdictWithConsensus(vote.votes)
       IN  vote' = [vote EXCEPT !.verdict = outcome.verdict,
                                !.consensus = outcome.consensus]
    /\ UNCHANGED << seed, backup_enabled, entries, lock, stats, th, results, calls,
                    enable_downstream, quarantine, faults, tools >>

NextConsensus == ModuleVerdicts \/ ConsensusVerdict

SpecConsensus == InitConsensus /\ [][NextConsensus]_vars

(***************************************************************************)
(* quarantine_manager.py: QuarantineManager                                *)
(***************************************************************************)
\* dict.get(key, default)
Get(d, key, default) == IF key \in DOMAIN d THEN d[key] ELSE default

\* if delta_s > 0.02, if drift_score > 0.02
HighDrift(drift) == drift > 20000

\* if glyph_id == "unclassified" or not glyph_id
UnclassifiedGlyph(glyph_id) == glyph_id = "unclassified" \/ glyph_id = ""

\* a check for the AI-Generated class alone
SymbolicAnomalyAIOnly(source_class) == source_class = "AI-Generated"

\* if source_class in ["AI-Generated", "Questionable"]
SymbolicAnomaly(source_class) == source_class \in {"AI-Generated", "Questionable"}

\* if echo_sense < 0.1
LowAuthenticity(echo_sense) == echo_sense < 100000

NoSbsm == [source_classification |-> "", drift_score |-> 0]

\* the reasons list of should_quarantine, one tag for each reason appended
Reasons(result) ==
    LET sbsm_result == Get(Get(result, "metadata", [sbsm |-> NoSbsm]), "sbsm", NoSbsm)
    IN  (IF HighDrift(Get(result, "delta_s", 0)) THEN << "drift" >> ELSE << >>)
        \o (IF UnclassifiedGlyph(Get(result, "glyph_id", "")) THEN << "glyph" >> ELSE << >>)
        \o (IF "metadata" \in DOMAIN result
                /\ SymbolicAnomaly(Get(sbsm_result, "source_classification", ""))
            THEN << "symbolic" >> ELSE << >>)
        \o (IF "metadata" \in DOMAIN result
                /\ HighDrift(Get(sbsm_result, "drift_score", 0))
            THEN << "sbsm drift" >> ELSE << >>)
        \o (IF Get(result, "verdict", "") = "Hallucination"
            THEN << "hallucination" >> ELSE << >>)
        \o (IF LowAuthenticity(Get(result, "echo_sense", 0))
            THEN << "authenticity" >> ELSE << >>)

\* QuarantineManager.should_quarantine
ShouldQuarantine(result) == Len(Reasons(result)) > 0

\* QuarantineManager.quarantine_input: the subdirectory chosen from the words
\* of the reason text, which joins the reasons
Category(reasons) ==
    IF \E i \in 1..Len(reasons) : reasons[i] \in {"drift", "sbsm drift"} THEN "drift"
    ELSE IF \E i \in 1..Len(reasons) : reasons[i] = "glyph" THEN "glyph"
    ELSE IF \E i \in 1..Len(reasons) : reasons[i] = "symbolic" THEN "symbolic"
    ELSE "general"

\* result dicts around the thresholds, each with one key or none left out
ResultKeys == {"delta_s", "glyph_id", "metadata", "verdict", "echo_sense"}

KeySets == {ResultKeys} \cup { ResultKeys \ {key} : key \in ResultKeys }

SbsmSamples ==
    [ source_classification : {"AI-Generated", "Questionable", "Human-Generated"},
      drift_score : {20000, 20001} ]

MakeResult(keys, delta_s, glyph_id, sbsm, verdict, echo_sense) ==
    [ key \in keys |->
        CASE key = "delta_s" -> delta_s
          [] key = "glyph_id" -> glyph_id
          [] key = "metadata" -> [sbsm |-> sbsm]
          [] key = "verdict" -> verdict
          [] key = "echo_sense" -> echo_sense ]

ResultSamples ==
    { MakeResult(keys, delta_s, glyph_id, sbsm, verdict, echo_sense) :
        keys \in KeySets, delta_s \in {20000, 20001},
        glyph_id \in {"", "unclassified", "GHX-0A1B"}, sbsm \in SbsmSamples,
        verdict \in {"Plausible", "Hallucination"}, echo_sense \in {99999, 100000} }

InitQuarantine ==
    /\ seed \in Seeds
    /\ backup_enabled = TRUE
    /\ enable_downstream = TRUE
    /\ vote = NoVote
    /\ quarantine \in { [NoQuarantine EXCEPT !.text = text, !.result = result] :
                            text \in Texts, result \in ResultSamples }
    /\ VaultIdle
    /\ ToolsIdle

\* process_result when the input is not quarantined or its file is written
ProcessResult ==
    /\ ~quarantine.processed
    /\ quarantine' = [quarantine EXCEPT
                         !.processed = TRUE,
                         !.quarantined = ShouldQuarantine(quarantine.result),
                         !.filepath = IF ShouldQuarantine(quarantine.result)
                                      THEN Category(Reasons(quarantine.result))
                                      ELSE "None"]
    /\ UNCHANGED << seed, backup_enabled, entries, lock, stats, th, results, calls,
                    enable_downstream, vote, faults, tools >>

\* process_result when quarantine_input raises: the error is kept, no file
ProcessResultWriteFails ==
    /\ ~quarantine.processed
    /\ ShouldQuarantine(quarantine.result)
    /\ quarantine' = [quarantine EXCEPT !.processed = TRUE, !.quarantined = TRUE,
                                        !.error = TRUE]
    /\ UNCHANGED << seed, backup_enabled, entries, lock, stats, th, results, calls,
                    enable_downstream, vote, faults, tools >>

NextQuarantine == ProcessResult \/ ProcessResultWriteFails

SpecQuarantine == InitQuarantine /\ [][NextQuarantine]_vars

(***************************************************************************)
(* main.py: discover_detectors and run_detectors                           *)
(***************************************************************************)
\* a module file of the detectors package: whether importing it succeeds,
\* whether it has a run function, the detector class it defines ("none", or
\* a class with "run", with "analyze", or "bare" with neither), and what
\* calling its entry point does
Module(importable, has_run, class, output) ==
    [ importable |-> importable, has_run |-> has_run, class |-> class,
      output |-> output ]

RECURSIVE DiscoverUpTo(_, _)
DiscoverUpTo(modules, n) ==
    IF n = 0 THEN <<>>
    ELSE IF modules[n].importable /\ modules[n].has_run
         THEN Append(DiscoverUpTo(modules, n - 1), n)
         ELSE DiscoverUpTo(modules, n - 1)

\* discover_detectors: the names of the modules that import and have run
DiscoverDetectors(modules) == DiscoverUpTo(modules, Len(modules))

\* d[key] = value
Put(d, key, value) ==
    [k \in (DOMAIN d) \cup {key} |-> IF k = key THEN value ELSE d[k]]

\* {"error": msg}; the key "error" is absent when error is ""
ErrorDict(msg) ==
    [ error |-> msg, echo_score_penalty |-> Absent, echo_score_modifier |-> Absent ]

\* the detector's own dict, kept as it is
ResultDict(output) ==
    [ error |-> "", echo_score_penalty |-> output.echo_score_penalty,
      echo_score_modifier |-> output.echo_score_modifier ]

\* a field declared Optional[float] takes a number or None
FieldValid(val) == val.type # "str"

\* ValidationUtility.validate_detector_output on a dict
ValidateDetectorOutput(output) ==
    /\ FieldValid(output.echo_score_penalty)
    /\ FieldValid(output.echo_score_modifier)

\* a loop body that stores what it has without flagging it
DetectorEntryUnflagged(output) == ResultDict(output)

\* run_detectors, the body of the loop: what is stored under the detector's
\* name.  DetectorResultSchema(**None) raises a TypeError inside the try.
DetectorEntry(output) ==
    IF output.kind = "raises" THEN ErrorDict("raised")
    ELSE IF output.kind = "none" THEN ErrorDict("raised")
    ELSE IF ValidateDetectorOutput(output) THEN ResultDict(output)
    ELSE ErrorDict("validation_failed")

\* run_detectors(input_data, discover_detectors()): results = {}
RunDetectorsCall ==
    /\ pipeline.pc = "idle"
    /\ registry.cursor > Len(registry.config)
    /\ \E text \in BatchTexts :
        pipeline' = [pipeline EXCEPT !.pc = "detectors", !.text = text,
                                     !.detectors = DiscoverDetectors(pipeline.modules)]
    /\ UNCHANGED << seed, backup_enabled, entries, lock, stats, th, results, calls,
                    enable_downstream, vote, quarantine, faults, registry, config,
                    probe, monitor >>

\* one turn of the loop of run_detectors
RunDetectorsStep ==
    /\ pipeline.pc = "detectors"
    /\ pipeline.cursor < Len(pipeline.detectors)
    /\ LET name == pipeline.detectors[pipeline.cursor + 1]
       IN  pipeline' = [pipeline EXCEPT
                           !.cursor = @ + 1,
                           !.detector_results =
                               Put(@, name, DetectorEntry(pipeline.modules[name].output))]
    /\ UNCHANGED << seed, backup_enabled, entries, lock, stats, th, results, calls,
                    enable_downstream, vote, quarantine, faults, registry, config,
                    probe, monitor >>

\* return results
RunDetectorsReturn ==
    /\ pipeline.pc = "detectors"
    /\ pipeline.cursor = Len(pipeline.detectors)
    /\ pipeline' = [pipeline EXCEPT !.pc = "detected"]
    /\ UNCHANGED << seed, backup_enabled, entries, lock, stats, th, results, calls,
                    enable_downstream, vote, quarantine, faults, registry, config,
                    probe, monitor >>

(***************************************************************************)
(* main.py: run_pipeline.  EchoScore is in units of 10^-6.                 *)
(***************************************************************************)
Whitespace == {9, 10, 11, 12, 13, 32}

\* not text_content.strip()
IsBlank(text) == \A i \in 1..Len(text) : text[i] \in Whitespace

BaseScore == 50000000

MaxScore == 100000000

AuthenticMin == 80000000

PlausibleMin == 50000000

ModeratePenalty == -5000000

NeutralSense == 500000

SenseInfluence == 40

\* a value that takes part in a sum without a TypeError
Addable(val) == val.type \in {"absent", "float"}

\* module_result.get(key, default) of a number
NumberOf(val, default) == IF val.type = "float" THEN val.v ELSE default

\* the penalties and modifiers of the detectors named 1..n
RECURSIVE SumModifiers(_, _)
SumModifiers(dr, n) ==
    IF n = 0 THEN 0
    ELSE SumModifiers(dr, n - 1)
         + (IF n \in DOMAIN dr
            THEN NumberOf(dr[n].echo_score_penalty, 0)
                 + NumberOf(dr[n].echo_score_modifier, 0)
            ELSE 0)

\* a score returned as it is
ClampNone(score) == score

\* max(0.0, min(100.0, base_score))
Clamp(score) == Max(0, Min(MaxScore, score))

\* calculate_echo_score: a TypeError in the sum gives the default score
CalculateEchoScore(dr, ev) ==
    IF \/ \E name \in DOMAIN dr : \/ ~Addable(dr[name].echo_score_penalty)
                                  \/ ~Addable(dr[name].echo_score_modifier)
       \/ ~Addable(ev.echo_sense)
    THEN BaseScore
    ELSE Clamp(BaseScore + SumModifiers(dr, NumDetectors)
               + (NumberOf(ev.echo_sense, NeutralSense) - NeutralSense) * SenseInfluence)

\* a determine_overall_decision that looks for the error of EchoVerifier only
DetermineOverallDecisionIsolated(echo_score, dr, ev) ==
    IF ev.error # "" THEN "Error"
    ELSE IF ev.verdict = "Hallucination" THEN "Synthetic"
    ELSE IF echo_score >= AuthenticMin THEN "Authentic"
    ELSE IF echo_score >= PlausibleMin THEN "Plausible"
    ELSE "Questionable"

\* determine_overall_decision with the default verdict_thresholds
DetermineOverallDecision(echo_score, dr, ev) ==
    IF (\E name \in DOMAIN dr : dr[name].error # "") \/ ev.error # "" THEN "Error"
    ELSE IF ev.verdict = "Hallucination" THEN "Synthetic"
    ELSE IF ev.verdict = "Authentic" /\ echo_score >= AuthenticMin THEN "Authentic"
    ELSE IF echo_score >= AuthenticMin THEN "Authentic"
    ELSE IF echo_score >= PlausibleMin THEN "Plausible"
    ELSE "Questionable"

\* compute_advisory_flags compares penalty, then modifier, with the
\* thresholds: a None raises a TypeError that nothing catches before the
\* handler of run_pipeline
FlagsRaise(dr) ==
    \E name \in DOMAIN dr :
        \/ dr[name].echo_score_penalty.type = "none"
        \/ /\ dr[name].echo_score_modifier.type = "none"
           /\ NumberOf(dr[name].echo_score_penalty, 0) > ModeratePenalty

\* the dict returned on every error path of run_pipeline
ErrorOut == [error |-> TRUE, EchoScore |-> 0, Decision |-> "Error"]

PipelineTexts == { <<>>, <<32>>, <<10, 9>>, <<97>>, <<32, 97>> }

\* run_pipeline(input_data, "file") when the file cannot be read
PipelineFileError ==
    /\ pipeline.pc = "idle"
    /\ pipeline' = [pipeline EXCEPT !.pc = "done", !.out = ErrorOut]
    /\ UNCHANGED << seed, backup_enabled, entries, lock, stats, th, results, calls,
                    enable_downstream, vote, quarantine, faults, registry, config,
                    probe, monitor >>

\* run_pipeline(input_data) up to detectors = discover_detectors()
PipelineStart ==
    /\ pipeline.pc = "idle"
    /\ \E text \in PipelineTexts :
        pipeline' =
            IF IsBlank(text)
            THEN [pipeline EXCEPT !.pc = "done", !.text = text, !.out = ErrorOut]
            ELSE [pipeline EXCEPT !.pc = "detectors", !.text = text,
                                  !.detectors = DiscoverDetectors(pipeline.modules)]
    /\ UNCHANGED << seed, backup_enabled, entries, lock, stats, th, results, calls,
                    enable_downstream, vote, quarantine, faults, registry, config,
                    probe, monitor >>

\* what run_echoverifier returns: the result of echoverifier.run, validated
\* or not, or {"error": str(e)}
EvResult(error, echo_sense, verdict) ==
    [ error |-> error, echo_sense |-> echo_sense, verdict |-> verdict ]

EvResults ==
    { EvResult("raised", Absent, "") }
    \cup { EvResult("", Float(echo_sense), verdict) :
             echo_sense \in {0, NeutralSense, 1000000},
             verdict \in {"Authentic", "Hallucination", "Ambiguous"} }

\* full_results["echoverifier"] = run_echoverifier(text_content)
RunEchoverifier ==
    /\ pipeline.pc = "detected"
    /\ \E ev \in EvResults :
        pipeline' = [pipeline EXCEPT !.pc = "verified", !.echoverifier = ev]
    /\ UNCHANGED << seed, backup_enabled, entries, lock, stats, th, results, calls,
                    enable_downstream, vote, quarantine, faults, registry, config,
                    probe, monitor >>

\* steps 3 to 7 of run_pipeline and its return
PipelineReturn ==
    /\ pipeline.pc = "verified"
    /\ LET dr == pipeline.detector_results
           ev == pipeline.echoverifier
           echo_score == CalculateEchoScore(dr, ev)
       IN  pipeline' =
               [pipeline EXCEPT
                   !.pc = "done",
                   !.out = IF FlagsRaise(dr) THEN ErrorOut
                           ELSE [ error |-> FALSE, EchoScore |-> echo_score,
                                  Decision |-> DetermineOverallDecision(echo_score, dr, ev) ]]
    /\ UNCHANGED << seed, backup_enabled, entries, lock, stats, th, results, calls,
                    enable_downstream, vote, quarantine, faults, registry, config,
                    probe, monitor >>

Numbers == { Absent, NoneVal, Word, Float(-60000000), Float(60000000) }

\* the module files of the detectors directory
PipelineModules ==
    { Module(TRUE, FALSE, "none", NoOutput),
      Module(TRUE, TRUE, "none", NoOutput),
      Module(TRUE, TRUE, "none", Output("raises", Absent, Absent)) }
    \cup { Module(TRUE, TRUE, "none", Output("dict", penalty, modifier)) :
             penalty \in Numbers, modifier \in Numbers }

InitPipeline ==
    /\ seed = 1
    /\ backup_enabled = TRUE
    /\ enable_downstream = TRUE
    /\ vote = NoVote
    /\ quarantine = NoQuarantine
    /\ VaultIdle
    /\ registry = NoRegistry
    /\ config = NoConfig
    /\ probe = NoProbe
    /\ monitor = NoMonitor
    /\ \E modules \in [1..NumDetectors -> PipelineModules] :
        pipeline = [NoPipeline EXCEPT !.modules = modules]

NextPipeline ==
    \/ PipelineFileError
    \/ PipelineStart
    \/ RunDetectorsStep
    \/ RunDetectorsReturn
    \/ RunEchoverifier
    \/ PipelineReturn

SpecPipeline == InitPipeline /\ [][NextPipeline]_vars

(***************************************************************************)
(* detector_registry.py: DetectorRegistry                                  *)
(***************************************************************************)
\* an entry of registry.json: depends is the name of the detector it
\* depends on (0: none), class_given is whether "class" is configured, and
\* target is the module that its "module" names
Entry(enabled, depends, class_given, target) ==
    [ enabled |-> enabled, depends |-> depends, class_given |-> class_given,
      target |-> target ]

\* check_dependencies
CheckDependencies(reg, depends) == depends = 0 \/ depends \in DOMAIN reg.detectors

\* detector_info: getattr(module, class_name) gives None when the class is
\* not configured or not in the module
DetectorInfo(entry) ==
    [ module |-> entry.target,
      class |-> IF entry.class_given THEN entry.target.class ELSE "none" ]

\* the entry point that run_detector would call, "none" if there is none
EntryPoint(info) ==
    IF info.module.has_run THEN "run"
    ELSE IF info.class \in {"run", "analyze"} THEN info.class
    ELSE "none"

\* a load_detector that holds a detector only if it has an entry point
LoadDetectorVerified(reg, name) ==
    LET entry == reg.config[name]
    IN  IF ~CheckDependencies(reg, entry.depends) THEN reg
        ELSE IF ~entry.target.importable THEN reg
        ELSE IF EntryPoint(DetectorInfo(entry)) = "none"
             THEN [reg EXCEPT !.loaded_modules = @ \cup {name}]
        ELSE [reg EXCEPT !.loaded_modules = @ \cup {name},
                         !.detectors = Put(@, name, DetectorInfo(entry))]

\* load_detector
LoadDetector(reg, name) ==
    LET entry == reg.config[name]
    IN  IF ~CheckDependencies(reg, entry.depends) THEN reg
        ELSE IF ~entry.target.importable THEN reg
        ELSE [reg EXCEPT !.loaded_modules = @ \cup {name},
                         !.detectors = Put(@, name, DetectorInfo(entry))]

\* run_detector: None when the detector is not held, has no entry point or
\* raises; else what its entry point returns
RegistryRunDetector(reg, name) ==
    IF name \notin DOMAIN reg.detectors THEN NoOutput
    ELSE LET info == reg.detectors[name]
         IN  IF EntryPoint(info) = "none" THEN NoOutput
             ELSE IF info.module.output.kind = "raises" THEN NoOutput
             ELSE info.module.output

\* auto_load_detectors, one turn of the loop over the configured detectors
AutoLoadStep ==
    /\ registry.cursor >= 1
    /\ registry.cursor <= Len(registry.config)
    /\ registry' =
          IF registry.config[registry.cursor].enabled
          THEN [LoadDetector(registry, registry.cursor) EXCEPT !.cursor = @ + 1]
          ELSE [registry EXCEPT !.cursor = @ + 1]
    /\ UNCHANGED << seed, backup_enabled, entries, lock, stats, th, results, calls,
                    enable_downstream, vote, quarantine, faults, pipeline, config,
                    probe, monitor >>

\* detector_registry.run_detector(name, input_data) on the constructed registry
RunDetectorCall ==
    /\ registry.cursor > Len(registry.config)
    /\ pipeline.pc = "idle"
    /\ \E name \in 1..Len(registry.config) :
        registry' = [registry EXCEPT
                        !.ran = [name |-> name,
                                 result |-> RegistryRunDetector(registry, name)]]
    /\ UNCHANGED << seed, backup_enabled, entries, lock, stats, th, results, calls,
                    enable_downstream, vote, quarantine, faults, pipeline, config,
                    probe, monitor >>

\* the module files of the registry model
RegistryModules ==
    { Module(FALSE, FALSE, "none", NoOutput),
      Module(TRUE, TRUE, "none", Output("dict", Absent, Float(5000000))),
      Module(TRUE, TRUE, "none", Output("dict", Word, Absent)),
      Module(TRUE, TRUE, "none", Output("raises", Absent, Absent)),
      Module(TRUE, FALSE, "none", NoOutput),
      Module(TRUE, FALSE, "run", Output("dict", Float(-5000000), Absent)),
      Module(TRUE, FALSE, "analyze", Output("raises", Absent, Absent)),
      Module(TRUE, FALSE, "bare", NoOutput) }

\* registry.json: an entry that is not enabled, or an enabled one that may
\* depend on the first detector and may configure a class
Entries ==
    { Entry(FALSE, 0, FALSE, target) : target \in RegistryModules }
    \cup { Entry(TRUE, depends, class_given, target) :
             depends \in {0, 1}, class_given \in BOOLEAN, target \in RegistryModules }

\* DetectorRegistry() about to load the detectors that its registry.json
\* enables; the same module files are in the detectors directory of main.py
InitRegistry ==
    /\ seed = 1
    /\ backup_enabled = TRUE
    /\ enable_downstream = TRUE
    /\ vote = NoVote
    /\ quarantine = NoQuarantine
    /\ VaultIdle
    /\ config = NoConfig
    /\ probe = NoProbe
    /\ monitor = NoMonitor
    /\ \E listed \in [1..NumDetectors -> Entries] :
        /\ registry = [NoRegistry EXCEPT !.config = listed, !.cursor = 1]
        /\ pipeline = [NoPipeline EXCEPT
                          !.modules = [name \in 1..NumDetectors |-> listed[name].target]]

NextRegistry ==
    \/ AutoLoadStep
    \/ RunDetectorCall
    \/ RunDetectorsCall
    \/ RunDetectorsStep
    \/ RunDetectorsReturn

SpecRegistry == InitRegistry /\ [][NextRegistry]_vars

(***************************************************************************)
(* config_hot_reload.py: ConfigManager.  Weights are in units of 10^-6;    *)
(* the clock counts the ticks of the file system's modification times.     *)
(***************************************************************************)
DefaultWeights ==
    [ delta_component |-> 300000, fold_component |-> 300000,
      glyph_component |-> 200000, ancestry_component |-> 200000 ]

\* the contents of scoring_config.json: no section, or echosense_weights
ConfigFiles ==
    { EmptyDict }
    \cup { [echosense_weights |-> [DefaultWeights EXCEPT !.delta_component = delta]] :
             delta \in {300000, 400000, 500000} }

\* get_echosense_weights
GetEchosenseWeights(config_data) == Get(config_data, "echosense_weights", DefaultWeights)

\* reload_config: current_mtime <= self.last_modified means no change
FileChanged(mtime, last_modified) == ~(mtime <= last_modified)

\* the file _create_default_config writes at time now
DefaultFile(now) ==
    [ data |-> [echosense_weights |-> DefaultWeights], valid |-> TRUE,
      mtime |-> now, exists |-> TRUE ]

\* another process, or the user, rewrites the file
WriteConfig ==
    /\ \E data \in ConfigFiles, valid \in BOOLEAN :
        config' = [config EXCEPT
                      !.file = [data |-> data, valid |-> valid, mtime |-> config.clock,
                                exists |-> TRUE],
                      !.reloaded = FALSE, !.read = FALSE]
    /\ UNCHANGED << seed, backup_enabled, entries, lock, stats, th, results, calls,
                    enable_downstream, vote, quarantine, faults, pipeline, registry,
                    probe, monitor >>

\* another process, or the user, removes the file
DeleteConfig ==
    /\ config.file.exists
    /\ config' = [config EXCEPT !.file.exists = FALSE,
                                !.reloaded = FALSE, !.read = FALSE]
    /\ UNCHANGED << seed, backup_enabled, entries, lock, stats, th, results, calls,
                    enable_downstream, vote, quarantine, faults, pipeline, registry,
                    probe, monitor >>

\* the modification time of the file system moves on
Tick ==
    /\ config.clock < MaxClock
    /\ config' = [config EXCEPT !.clock = @ + 1]
    /\ UNCHANGED << seed, backup_enabled, entries, lock, stats, th, results, calls,
                    enable_downstream, vote, quarantine, faults, pipeline, registry,
                    probe, monitor >>

\* what a load records when it begins
Begin(cfg) ==
    [cfg EXCEPT !.before = [config_data |-> cfg.config_data,
                            last_modified |-> cfg.last_modified],
                !.failed = FALSE, !.notified = FALSE]

\* reload_config, called by the user or by on_modified, up to load_config;
\* os.path.getmtime raises for a missing file, which reload_config logs
ReloadConfig ==
    /\ config.pc = "idle"
    /\ config' = IF ~config.file.exists
                 THEN [Begin(config) EXCEPT !.failed = TRUE, !.reloaded = TRUE]
                 ELSE IF FileChanged(config.file.mtime, config.last_modified)
                 THEN [Begin(config) EXCEPT !.pc = "load"]
                 ELSE [config EXCEPT !.reloaded = TRUE]
    /\ UNCHANGED << seed, backup_enabled, entries, lock, stats, th, results, calls,
                    enable_downstream, vote, quarantine, faults, pipeline, registry,
                    probe, monitor >>

\* load_config: _create_default_config for a missing file, then
\* new_config = json.load(f), or the JSONDecodeError branch
LoadRead ==
    /\ config.pc = "load"
    /\ LET file == IF config.file.exists THEN config.file
                   ELSE DefaultFile(config.clock)
       IN  config' = IF file.valid
                     THEN [config EXCEPT !.file = file, !.pc = "store",
                                         !.new_config = file.data]
                     ELSE [config EXCEPT !.pc = "idle", !.reloaded = TRUE,
                                         !.failed = TRUE]
    /\ UNCHANGED << seed, backup_enabled, entries, lock, stats, th, results, calls,
                    enable_downstream, vote, quarantine, faults, pipeline, registry,
                    probe, monitor >>

\* load_config where the failed load leaves config_data as it was
LoadStoreAtomic ==
    /\ config.pc = "store"
    /\ config' = IF config.file.exists
                 THEN [config EXCEPT !.pc = "idle",
                                     !.config_data = config.new_config,
                                     !.last_modified = config.file.mtime,
                                     !.notified = TRUE, !.reloaded = TRUE]
                 ELSE [config EXCEPT !.pc = "idle",
                                     !.failed = TRUE, !.reloaded = TRUE]
    /\ UNCHANGED << seed, backup_enabled, entries, lock, stats, th, results, calls,
                    enable_downstream, vote, quarantine, faults, pipeline, registry,
                    probe, monitor >>

\* load_config: with self.lock, config_data is set, then last_modified from
\* os.path.getmtime as it is now, then the callbacks are notified; getmtime
\* raises for a file that has gone, after config_data was set
LoadStore ==
    /\ config.pc = "store"
    /\ config' = IF config.file.exists
                 THEN [config EXCEPT !.pc = "idle",
                                     !.config_data = config.new_config,
                                     !.last_modified = config.file.mtime,
                                     !.notified = TRUE, !.reloaded = TRUE]
                 ELSE [config EXCEPT !.pc = "idle",
                                     !.config_data = config.new_config,
                                     !.failed = TRUE, !.reloaded = TRUE]
    /\ UNCHANGED << seed, backup_enabled, entries, lock, stats, th, results, calls,
                    enable_downstream, vote, quarantine, faults, pipeline, registry,
                    probe, monitor >>

\* a getter, here get_echosense_weights
GetWeights ==
    /\ config.pc = "idle"
    /\ config' = [config EXCEPT !.read = TRUE,
                                !.got = GetEchosenseWeights(config.config_data)]
    /\ UNCHANGED << seed, backup_enabled, entries, lock, stats, th, results, calls,
                    enable_downstream, vote, quarantine, faults, pipeline, registry,
                    probe, monitor >>

\* ConfigManager(config_path) on a file written at tick 1: load_config has
\* loaded it, or has failed and left config_data = {} and last_modified = 0
InitConfig ==
    /\ seed = 1
    /\ backup_enabled = TRUE
    /\ enable_downstream = TRUE
    /\ vote = NoVote
    /\ quarantine = NoQuarantine
    /\ VaultIdle
    /\ pipeline = NoPipeline
    /\ registry = NoRegistry
    /\ probe = NoProbe
    /\ monitor = NoMonitor
    /\ \E data \in ConfigFiles, valid \in BOOLEAN :
        config = [NoConfig EXCEPT
                     !.file = [data |-> data, valid |-> valid, mtime |-> 1,
                               exists |-> TRUE],
                     !.clock = 1,
                     !.config_data = IF valid THEN data ELSE EmptyDict,
                     !.last_modified = IF valid THEN 1 ELSE 0,
                     !.failed = ~valid, !.notified = valid,
                     !.reloaded = TRUE]

NextConfig ==
    \/ WriteConfig
    \/ DeleteConfig
    \/ Tick
    \/ ReloadConfig
    \/ LoadRead
    \/ LoadStore
    \/ GetWeights

SpecConfig == InitConfig /\ [][NextConfig]_vars

(***************************************************************************)
(* detectors/glyph.py run and AncestryDepth.calculate_depth on their own,  *)
(* on all the texts of at most MaxLen characters among "a", "b", "c"       *)
(***************************************************************************)
ProbeAlphabet == {97, 98, 99}

ProbeTexts == UNION { [1..n -> ProbeAlphabet] : n \in 0..MaxLen }

\* auxiliary hash strings: "", "a", "aa", "aba"
ProbeHashes == { <<>>, <<97>>, <<97, 97>>, <<97, 98, 97>> }

InitProbe ==
    /\ seed \in Seeds
    /\ backup_enabled = TRUE
    /\ enable_downstream = TRUE
    /\ vote = NoVote
    /\ quarantine = NoQuarantine
    /\ VaultIdle
    /\ pipeline = NoPipeline
    /\ registry = NoRegistry
    /\ config = NoConfig
    /\ monitor = NoMonitor
    /\ \E first \in ProbeTexts, second \in ProbeTexts, hash \in ProbeHashes :
        probe = [NoProbe EXCEPT !.first = first, !.second = second, !.hash = hash]

\* glyph.run(input_data)["glyph_id"], on the first text and then the second
GlyphRun ==
    /\ Len(probe.ids) < 2
    /\ probe' = [probe EXCEPT !.ids =
                    Append(@, GlyphId(seed, IF Len(probe.ids) = 0 THEN probe.first
                                            ELSE probe.second))]
    /\ UNCHANGED << seed, backup_enabled, entries, lock, stats, th, results, calls,
                    enable_downstream, vote, quarantine, faults, pipeline, registry,
                    config, monitor >>

\* calculate_depth(input_data, sbsh_hash) on the first text
CalculateDepthRun ==
    /\ probe.depth = 0
    /\ probe' = [probe EXCEPT !.depth = CalculateDepth(probe.first, probe.hash)]
    /\ UNCHANGED << seed, backup_enabled, entries, lock, stats, th, results, calls,
                    enable_downstream, vote, quarantine, faults, pipeline, registry,
                    config, monitor >>

NextProbe == GlyphRun \/ CalculateDepthRun

SpecProbe == InitProbe /\ [][NextProbe]_vars

(***************************************************************************)
(* EchoFold.generate_vector, EchoFold.cosine_similarity and sbsm_matrix on *)
(* their own: on the texts of at most MaxLen characters among "a", U+00FF  *)
(* and U+0100 and two longer ones, and on short vectors                    *)
(***************************************************************************)
MatrixAlphabet == {97, 255, 256}

MatrixTexts ==
    UNION { [1..n -> MatrixAlphabet] : n \in 0..MaxLen }
    \cup { [i \in 1..16 |-> 255], [i \in 1..17 |-> 97] }

\* vectors of 0 to 2 components, in units of 10^-4
VectorSamples == UNION { [1..n -> {0, 3000, 10000}] : n \in 0..2 }

InitMatrix ==
    /\ seed \in Seeds
    /\ backup_enabled = TRUE
    /\ enable_downstream = TRUE
    /\ vote = NoVote
    /\ quarantine = NoQuarantine
    /\ VaultIdle
    /\ pipeline = NoPipeline
    /\ registry = NoRegistry
    /\ config = NoConfig
    /\ monitor = NoMonitor
    /\ \E first \in MatrixTexts, a \in VectorSamples, b \in VectorSamples :
        probe = [NoProbe EXCEPT !.first = first, !.a = a, !.b = b]

\* generate_vector(input_data, hash_result) on a non-empty combined string
GenerateVectorRun ==
    /\ probe.first \o probe.hash # <<>>
    /\ probe.vector = <<>>
    /\ probe' = [probe EXCEPT !.vector = GenerateVector(probe.first, probe.hash)]
    /\ UNCHANGED << seed, backup_enabled, entries, lock, stats, th, results, calls,
                    enable_downstream, vote, quarantine, faults, pipeline, registry,
                    config, monitor >>

\* generate_vector on an empty combined string: len(combined) is 0 and the
\* division raises ZeroDivisionError
GenerateVectorRaise ==
    /\ probe.first \o probe.hash = <<>>
    /\ ~probe.raised
    /\ probe' = [probe EXCEPT !.raised = TRUE]
    /\ UNCHANGED << seed, backup_enabled, entries, lock, stats, th, results, calls,
                    enable_downstream, vote, quarantine, faults, pipeline, registry,
                    config, monitor >>

\* cosine_similarity(a, b) and cosine_similarity(b, a)
CosineSimilarityRun ==
    /\ probe.sims = <<>>
    /\ probe' = [probe EXCEPT !.sims = << CosineSimilarity(probe.a, probe.b),
                                          CosineSimilarity(probe.b, probe.a) >>]
    /\ UNCHANGED << seed, backup_enabled, entries, lock, stats, th, results, calls,
                    enable_downstream, vote, quarantine, faults, pipeline, registry,
                    config, monitor >>

\* sbsm_matrix(input_string)
SbsmMatrixRun ==
    /\ probe.matrix.status = ""
    /\ probe' = [probe EXCEPT !.matrix = SbsmMatrix(probe.first)]
    /\ UNCHANGED << seed, backup_enabled, entries, lock, stats, th, results, calls,
                    enable_downstream, vote, quarantine, faults, pipeline, registry,
                    config, monitor >>

NextMatrix ==
    GenerateVectorRun \/ GenerateVectorRaise \/ CosineSimilarityRun \/ SbsmMatrixRun

SpecMatrix == InitMatrix /\ [][NextMatrix]_vars

(***************************************************************************)
(* performance_monitor.py: PerformanceMonitor.record_measurement called by *)
(* several threads for the operation "verify".  Times are in seconds.      *)
(***************************************************************************)
LatencyThreshold == 5

SpikeThresholdMultiplier == 3

AlertCooldown == 300

\* how far time.time() moves in one step of the clock
TickSeconds == 200

\* time.time() when the monitor is first used: further from the epoch than
\* the cooldown, so that a key never alerted before is out of its cooldown
StartTime == AlertCooldown + TickSeconds

Latencies == {1, 6}

\* list(self.measurements)[-20:]
Recent(measurements) ==
    SubSeq(measurements, Max(1, Len(measurements) - 19), Len(measurements))

\* the spike test of _check_alerts: at least 5 measurements, at least 3
\* recent ones, and latency > mean(recent[:-1]) * multiplier, latency > 1.0
IsSpike(measurements, latency) ==
    LET recent == Recent(measurements)
        n == Len(recent) - 1
    IN  /\ Len(measurements) >= 5
        /\ Len(recent) >= 3
        /\ latency * n > SumSeq(SubSeq(recent, 1, n)) * SpikeThresholdMultiplier
        /\ latency > 1

\* the comparison of _should_send_alert
CooldownOver(current_time, last_alert) == current_time - last_alert > AlertCooldown

\* _send_alert, after last_alert_time[alert_key] = current_time
SendAlert(mon, key, current_time) ==
    [mon EXCEPT !.last_alert_time[key] = current_time,
                !.alerts = Append(@, [key |-> key, current_time |-> current_time])]

\* record_measurement up to the call of _check_alerts: the append and the
\* two totals are updated under measurements_lock
RecordMeasurement(t) ==
    /\ monitor.caller[t].pc = "idle"
    /\ monitor.recorded < MaxRecords
    /\ \E latency \in Latencies :
        monitor' = [monitor EXCEPT
                       !.measurements = Append(@, latency),
                       !.total_requests = @ + 1,
                       !.total_time = @ + latency,
                       !.recorded = @ + 1,
                       !.caller[t] = [IdleCaller EXCEPT !.pc = "time",
                                                        !.latency = latency]]
    /\ UNCHANGED << seed, backup_enabled, entries, lock, stats, th, results, calls,
                    enable_downstream, vote, quarantine, faults, pipeline, registry,
                    config, probe >>

\* _check_alerts: current_time = time.time(), then the absolute threshold
CheckAlertsTime(t) ==
    /\ monitor.caller[t].pc = "time"
    /\ monitor' = [monitor EXCEPT
                      !.caller[t].current_time = monitor.clock,
                      !.caller[t].pc =
                          IF monitor.caller[t].latency > LatencyThreshold
                          THEN "should_send" ELSE "spike"]
    /\ UNCHANGED << seed, backup_enabled, entries, lock, stats, th, results, calls,
                    enable_downstream, vote, quarantine, faults, pipeline, registry,
                    config, probe >>

\* _should_send_alert for the absolute key, with no lock held: the read
ShouldSendRead(t) ==
    /\ monitor.caller[t].pc = "should_send"
    /\ monitor' = [monitor EXCEPT
                      !.caller[t].last_alert =
                          monitor.last_alert_time["absolute_latency_verify"],
                      !.caller[t].pc = "decide"]
    /\ UNCHANGED << seed, backup_enabled, entries, lock, stats, th, results, calls,
                    enable_downstream, vote, quarantine, faults, pipeline, registry,
                    config, probe >>

\* _should_send_alert for the absolute key: the comparison, the store and
\* _send_alert
ShouldSendDecide(t) ==
    /\ monitor.caller[t].pc = "decide"
    /\ LET me == monitor.caller[t]
           sent == IF CooldownOver(me.current_time, me.last_alert)
                   THEN SendAlert(monitor, "absolute_latency_verify", me.current_time)
                   ELSE monitor
       IN  monitor' = [sent EXCEPT !.caller[t].pc = "spike"]
    /\ UNCHANGED << seed, backup_enabled, entries, lock, stats, th, results, calls,
                    enable_downstream, vote, quarantine, faults, pipeline, registry,
                    config, probe >>

\* the spike test, _should_send_alert and _send_alert for the spike key, all
\* under measurements_lock; then record_measurement returns
SpikeCheck(t) ==
    /\ monitor.caller[t].pc = "spike"
    /\ LET me == monitor.caller[t]
           sent == IF /\ IsSpike(monitor.measurements, me.latency)
                      /\ CooldownOver(me.current_time,
                                      monitor.last_alert_time["spike_verify"])
                   THEN SendAlert(monitor, "spike_verify", me.current_time)
                   ELSE monitor
       IN  monitor' = [sent EXCEPT !.caller[t] = IdleCaller]
    /\ UNCHANGED << seed, backup_enabled, entries, lock, stats, th, results, calls,
                    enable_downstream, vote, quarantine, faults, pipeline, registry,
                    config, probe >>

\* time passes
MonitorTick ==
    /\ monitor.clock < StartTime + MaxClock * TickSeconds
    /\ monitor' = [monitor EXCEPT !.clock = @ + TickSeconds]
    /\ UNCHANGED << seed, backup_enabled, entries, lock, stats, th, results, calls,
                    enable_downstream, vote, quarantine, faults, pipeline, registry,
                    config, probe >>

\* a monitor that has recorded nothing, or four fast calls, and has sent no
\* alert
InitMonitor ==
    /\ seed \in Seeds
    /\ backup_enabled = TRUE
    /\ enable_downstream = TRUE
    /\ vote = NoVote
    /\ quarantine = NoQuarantine
    /\ VaultIdle
    /\ pipeline = NoPipeline
    /\ registry = NoRegistry
    /\ config = NoConfig
    /\ probe = NoProbe
    /\ \E history \in { <<>>, <<1, 1, 1, 1>> } :
        monitor = [NoMonitor EXCEPT !.clock = StartTime,
                                    !.measurements = history,
                                    !.total_requests = Len(history),
                                    !.total_time = SumSeq(history)]

NextMonitor ==
    \/ MonitorTick
    \/ \E t \in Threads :
        \/ RecordMeasurement(t)
        \/ CheckAlertsTime(t)
        \/ ShouldSendRead(t)
        \/ ShouldSendDecide(t)
        \/ SpikeCheck(t)

SpecMonitor == InitMonitor /\ [][NextMonitor]_vars

(***************************************************************************)
(* api.py batch_verify: the VerifyResponse built from a result of          *)
(* echoverifier.run                                                        *)
(***************************************************************************)
VerifyResponse(result) ==
    [ input |-> result.input,
      verdict |-> result.verdict,
      delta_s |-> result.delta_s,
      echo_sense |-> result.echo_sense,
      glyph_id |-> result.glyph_id,
      ancestry_depth |-> result.ancestry_depth,
      vault_permission |-> result.vault_permission ]

Returned == { i \in 1..Len(results) : ~results[i].raised }

\* batch_status[batch_id] of the batch being served, whose futures complete
\* in the order of results: "total" is len(request.texts)
BatchTotal == MaxCalls

\* a counter that counts every future that is done
BatchCompletedAll == Len(results)

\* "completed" is incremented for a future whose result() did not raise
BatchCompleted == Cardinality(Returned)

\* "status" is "completed" once as_completed is exhausted
BatchStatus == IF Len(results) = BatchTotal THEN "completed" ELSE "processing"

(***************************************************************************)
(* C1. The results returned for identical input texts processed by the     *)
(* thread pool are identical: whatever the interleaving, two calls on the  *)
(* same text give the same response.                                       *)
(***************************************************************************)
C1_BatchResultsIdentical ==
    \A i, j \in Returned :
        results[i].input = results[j].input
            => VerifyResponse(results[i]) = VerifyResponse(results[j])

(***************************************************************************)
(* Claims about Vault.log                                                  *)
(***************************************************************************)
MainAttempts(t) == Cardinality({ i \in 1..Len(th[t].trace) : th[t].trace[i].stage = "main" })

Doubling(delays) == \A i \in 1..(Len(delays) - 1) : delays[i + 1] = 2 * delays[i]

GaveUpMain(t) == th[t].pc = "backup"

(* C2, as stated: one log call makes 3 attempts at the main vault write    *)
(* before it gives up on it, and each delay between failed attempts is     *)
(* twice the previous one.                                                 *)
C2_ThreeAttempts ==
    \A t \in Threads :
        /\ MainAttempts(t) <= 3
        /\ GaveUpMain(t) => MainAttempts(t) = 3
        /\ Doubling(th[t].delays)

(* C2, amended: one log call makes 4 attempts at the main vault write (the *)
(* first and max_retries = 3 retries) before it gives up on it; it sleeps  *)
(* 1, 2 and 4 seconds between them, each delay twice the previous one.     *)
C2_FourAttemptsDoubling ==
    \A t \in Threads :
        /\ MainAttempts(t) <= 4
        /\ GaveUpMain(t) => MainAttempts(t) = 4 /\ th[t].delays = << 1, 2, 4 >>
        /\ Doubling(th[t].delays)
        /\ Len(th[t].delays) <= 3

C2_Witness == \E t \in Threads : GaveUpMain(t) /\ Len(th[t].delays) = 3

StageRank(stage) == CASE stage = "main" -> 1 [] stage = "backup" -> 2 [] stage = "emergency" -> 3

FailedBefore(trace, j, stage) ==
    Cardinality({ i \in 1..(j - 1) : trace[i].stage = stage /\ ~trace[i].ok })

AppendedFields(e) ==
    [ input |-> e.input, verdict |-> e.verdict, fold_vector |-> e.fold_vector,
      fold_similarity |-> e.fold_similarity, vault_id |-> e.vault_id,
      backup |-> e.backup ]

SetOnce(old, new) == old # Unset => new = old

ReadsEntries(t) ==
    \/ th[t].pc = "idle" /\ th'[t].pc = "log_count_read" /\ th'[t].kind = "verify"
    \/ th[t].pc = "try" /\ th'[t].pc = "acquire"
    \/ th[t].pc = "logged" /\ th[t].kind = "verify" /\ th'[t].pc \in {"arcs", "ret"}
    \/ th[t].pc = "arcs" /\ th'[t].pc = "ret"

\* the steps of thread t that write Vault.entries
WritesEntries(t) ==
    \/ th[t].pc \in {"append", "backup_append"} /\ th'[t].pc = "logged"
    \/ entries' # entries /\ th'[t] # th[t]

(* C5: every step that reads or writes the entries list of the vault is    *)
(* taken by a thread that holds the lock of the vault.                     *)
C5_EntriesUnderLock ==
    [][\A t \in Threads : ReadsEntries(t) \/ WritesEntries(t) => lock = t]_vars

(***************************************************************************)
(* Claims about the result of EchoVerifier.verify                          *)
(***************************************************************************)
(* C6: vault_permission of a result is true exactly when its echo_sense is *)
(* above 0.5 and its ancestry_depth is at least 2.                         *)
C6_VaultPermission ==
    \A i \in Returned :
        results[i].vault_permission
            <=> (results[i].echo_sense > 500000 /\ results[i].ancestry_depth >= 2)

C6_Witness ==
    /\ \E i \in Returned : results[i].vault_permission
    /\ \E i \in Returned : results[i].echo_sense > 500000 /\ results[i].ancestry_depth < 2
    /\ \E i \in Returned : results[i].echo_sense <= 500000 /\ results[i].ancestry_depth >= 2
(***************************************************************************)
(* Claims about the reference vector                                       *)
(***************************************************************************)
AuthenticIndexes == { i \in 1..Len(entries) : entries[i].verdict = "Authentic" }

\* the RefWindow most recent entries that are classified Authentic
LastAuthentic ==
    { i \in AuthenticIndexes :
        Cardinality({ j \in AuthenticIndexes : j > i }) < RefWindow }

\* the entries classified Authentic among the RefWindow most recent entries
AuthenticOfLast == { i \in AuthenticIndexes : i > Len(entries) - RefWindow }

RECURSIVE SumComponent(_, _)
SumComponent(idx, k) ==
    IF idx = {} THEN 0
    ELSE LET i == CHOOSE x \in idx : TRUE
         IN  entries[i].fold_vector[k] + SumComponent(idx \ {i}, k)

\* ref is the mean of the fold vectors of the entries idx, to the last digit
IsMeanOf(ref, idx) ==
    /\ Len(ref) = FoldDim
    /\ \A k \in 1..FoldDim :
           2 * Abs(ref[k] * Cardinality(idx) - SumComponent(idx, k)) <= Cardinality(idx)

IsReferenceOf(ref, idx) ==
    IF idx = {} THEN ref = BaselineVector ELSE IsMeanOf(ref, idx)

\* verify has just read its reference vector from the vault
ReferenceRead == th[1].pc = "log_count_read" /\ th[1].kind = "verify"

(* C7, as stated: the reference vector of verify is the arithmetic mean of *)
(* the fold vectors of the 10 most recent vault entries that are           *)
(* classified Authentic, and the constant array when the vault holds no    *)
(* Authentic entry.                                                        *)
C7_MeanOfLastAuthentic ==
    ReferenceRead => IsReferenceOf(th[1].ref, LastAuthentic)

(* C7, amended: the reference vector of verify is the arithmetic mean of   *)
(* the fold vectors of those of the 10 most recent vault entries that are  *)
(* classified Authentic, and the constant array when none of these 10      *)
(* entries is Authentic, whatever older entries the vault holds.           *)
C7_MeanOfAuthenticInWindow ==
    ReferenceRead => IsReferenceOf(th[1].ref, AuthenticOfLast)

C7_Witness ==
    /\ ReferenceRead
    /\ Len(entries) > RefWindow
    /\ \E i, j \in AuthenticOfLast : entries[i].fold_vector # entries[j].fold_vector
    /\ AuthenticIndexes # AuthenticOfLast

(* C8: a text verified again later in the same process, after verify calls *)
(* on other texts, gets the verdict it got the first time and a delta_s    *)
(* within 0.001 of the first one.                                          *)
C8_ReplayConsistency ==
    \A i, j \in Returned :
        i < j /\ results[i].input = results[j].input
            => /\ results[j].verdict = results[i].verdict
               /\ Abs(results[j].delta_s - results[i].delta_s) <= 1000
(***************************************************************************)
(* Claims about the consensus vote                                         *)
(***************************************************************************)
Voted == vote.verdict # "None"

CountOf(label) == Cardinality({ i \in 1..Len(vote.votes) : vote.votes[i] = label })

Cast == { vote.votes[i] : i \in 1..Len(vote.votes) }

Leaders == { label \in Cast : \A other \in Cast : CountOf(other) <= CountOf(label) }

(* C9: the consensus polls five sub-verdicts; a label that has the         *)
(* majority of the votes is the verdict; the verdict is "Ambiguous" when   *)
(* two or more labels tie for the highest count or the highest count is at *)
(* most one third of the voters; any other verdict is the one label with   *)
(* the highest count.                                                      *)
C9_ConsensusMajority ==
    Voted =>
        /\ Len(vote.votes) = 5
        /\ \A label \in Cast : 2 * CountOf(label) > Len(vote.votes) => vote.verdict = label
        /\ (Cardinality(Leaders) >= 2
              \/ \E label \in Leaders : 3 * CountOf(label) <= Len(vote.votes))
             => vote.verdict = "Ambiguous"
        /\ vote.verdict # "Ambiguous" => Leaders = {vote.verdict}

C9_Witness == Voted /\ Cardinality(Leaders) >= 2 /\ vote.verdict = "Ambiguous"

(***************************************************************************)
(* Claims about the quarantine manager                                     *)
(***************************************************************************)
Has(key) == key \in DOMAIN quarantine.result

Sbsm == quarantine.result["metadata"].sbsm

DriftTrigger ==
    \/ Has("delta_s") /\ quarantine.result["delta_s"] > 20000
    \/ Has("metadata") /\ Sbsm.drift_score > 20000

GlyphTrigger ==
    ~Has("glyph_id") \/ quarantine.result["glyph_id"] \in {"", "unclassified"}

VerdictTrigger == Has("verdict") /\ quarantine.result["verdict"] = "Hallucination"

SenseTrigger == ~Has("echo_sense") \/ quarantine.result["echo_sense"] < 100000

\* the input is empty; the code has no length that is too short or too long
InputTrigger == quarantine.text = <<>>

(* C10, as stated: a result is flagged for quarantine exactly when one of  *)
(* these holds: drift above 0.02, glyph_id unclassified, source            *)
(* classification "AI-Generated", verdict "Hallucination", echo_sense      *)
(* below 0.1, or an empty, too short or too long input.                    *)
C10_TriggersWithInput ==
    quarantine.processed =>
        (quarantine.quarantined <=>
            \/ DriftTrigger
            \/ GlyphTrigger
            \/ Has("metadata") /\ Sbsm.source_classification = "AI-Generated"
            \/ VerdictTrigger
            \/ SenseTrigger
            \/ InputTrigger)

(* C10, amended: a result is flagged for quarantine exactly when one of    *)
(* these holds: delta_s above 0.02; glyph_id missing, empty or             *)
(* "unclassified"; in a result with metadata, an sbsm source               *)
(* classification "AI-Generated" or "Questionable" or an sbsm drift_score  *)
(* above 0.02; verdict "Hallucination"; echo_sense missing or below 0.1.   *)
(* The input text is no trigger.                                           *)
C10_TriggersOfResult ==
    quarantine.processed =>
        (quarantine.quarantined <=>
            \/ DriftTrigger
            \/ GlyphTrigger
            \/ Has("metadata")
                 /\ Sbsm.source_classification \in {"AI-Generated", "Questionable"}
            \/ VerdictTrigger
            \/ SenseTrigger)

C10_Witness ==
    /\ quarantine.processed
    /\ ~quarantine.quarantined
    /\ quarantine.text = <<>>
TriggerFires ==
    \/ DriftTrigger
    \/ GlyphTrigger
    \/ Has("metadata") /\ Sbsm.source_classification \in {"AI-Generated", "Questionable"}
    \/ VerdictTrigger
    \/ SenseTrigger

FileWritten == quarantine.filepath # "None"

(* C11: when a quarantine trigger fires the result is flagged and its      *)
(* quarantine file is written in the directory of its category; no result  *)
(* is returned flagged as quarantined without its file written.            *)
C11_FlaggedMeansWritten ==
    quarantine.processed =>
        /\ TriggerFires => quarantine.quarantined /\ FileWritten
        /\ quarantine.quarantined => FileWritten

(***************************************************************************)
(* C12. An exception raised by a detector's run is caught for that         *)
(* detector alone and the remaining detectors are still run.               *)
(***************************************************************************)
Raises(module) == module.output.kind = "raises"

\* the detectors that run_detectors has run so far
Ran == { pipeline.detectors[k] : k \in 1..pipeline.cursor }

\* run_detectors: every detector run so far has its entry in the results,
\* an error-flagged one if its run raised and its own dict if its run
\* returned a valid dict; when run_detectors returns, every discovered
\* detector has been run
InRunDetectors ==
    /\ DOMAIN pipeline.detector_results = Ran
    /\ \A name \in Ran :
        LET output == pipeline.modules[name].output
            entry == pipeline.detector_results[name]
        IN  /\ Raises(pipeline.modules[name]) => entry.error # ""
            /\ output.kind = "dict" /\ ValidateDetectorOutput(output)
                   => entry = ResultDict(output)
    /\ pipeline.pc = "detected" => Ran = Range(pipeline.detectors)

\* run_detector of the registry has called an entry point that raised
RanRaising ==
    /\ registry.ran.name \in DOMAIN registry.detectors
    /\ EntryPoint(registry.detectors[registry.ran.name]) # "none"
    /\ Raises(registry.detectors[registry.ran.name].module)

(* C12 as stated: whenever a detector's run raises, whether under          *)
(* run_detectors or under the registry's run_detector, the exception is    *)
(* turned into an error-flagged dict, and the remaining detectors are run. *)
C12_RaisedBecomesErrorDict ==
    /\ InRunDetectors
    /\ RanRaising => registry.ran.result.kind = "dict"

(* C12 amended: under run_detectors an exception raised by a detector's    *)
(* run becomes an error-flagged dict under that detector's name and the    *)
(* remaining detectors are still run; the registry's run_detector catches  *)
(* the exception too but returns None, not a dict.                         *)
C12_RaisedIsCaught ==
    /\ InRunDetectors
    /\ RanRaising => registry.ran.result = NoOutput

\* run_detectors has returned after a detector raised and a later one was
\* run, and run_detector has called a detector that raised
C12_Witness ==
    /\ pipeline.pc = "detected"
    /\ \E k \in 1..(Len(pipeline.detectors) - 1) :
          Raises(pipeline.modules[pipeline.detectors[k]])
    /\ RanRaising

(***************************************************************************)
(* C13. Which detectors the registry holds.                                *)
(***************************************************************************)
Held == DOMAIN registry.detectors

\* the entries that auto_load_detectors has gone through
Visited == 1..(registry.cursor - 1)

(* C13 as stated: no detector lacking an entry point (a run callable of    *)
(* the module, or a class with run or analyze) is ever held by the         *)
(* registry.                                                               *)
C13_HeldHaveEntryPoint ==
    \A name \in Held : EntryPoint(registry.detectors[name]) # "none"

(* C13 amended: the registry holds exactly the enabled entries whose       *)
(* dependency is held and whose module imports, with or without an entry   *)
(* point; the entry point is looked for when run_detector is called, which *)
(* returns None for a held detector that has none.                         *)
C13_HeldAsConfigured ==
    /\ \A name \in Visited :
          name \in Held <=>
              /\ registry.config[name].enabled
              /\ registry.config[name].target.importable
              /\ registry.config[name].depends = 0
                     \/ registry.config[name].depends \in Held
    /\ Held \subseteq Visited
    /\ \A name \in Held : registry.detectors[name] = DetectorInfo(registry.config[name])
    /\ registry.ran.name \in Held
          /\ EntryPoint(registry.detectors[registry.ran.name]) = "none"
          => registry.ran.result = NoOutput

\* run_detector has been called on a held detector that has no entry point
C13_Witness ==
    /\ registry.ran.name \in Held
    /\ EntryPoint(registry.detectors[registry.ran.name]) = "none"
    /\ registry.config[registry.ran.name].class_given

(* C14: the verdict of every result returned by echoverifier.run in verify *)
(* mode is one of "Authentic", "Plausible" and "Hallucination".            *)
C14_VerdictOfThree ==
    \A i \in Returned : results[i].verdict \in {"Authentic", "Plausible", "Hallucination"}

(* C15: echoverifier.run in verify mode returns a result with a verdict    *)
(* for the empty text and for a text of whitespace only: it does not       *)
(* raise.                                                                  *)
C15_BlankHandled ==
    \A i \in 1..Len(results) :
        IsBlank(results[i].input) => ~results[i].raised /\ results[i].verdict # "None"

(***************************************************************************)
(* C17. The EchoScore returned by run_pipeline.                            *)
(***************************************************************************)
PipelineDone == pipeline.pc = "done"

(* C17: run_pipeline always returns an EchoScore between 0 and 100,        *)
(* whatever the penalties and modifiers of the detectors, and on every     *)
(* error path.                                                             *)
C17_EchoScoreInRange ==
    PipelineDone => pipeline.out.EchoScore >= 0 /\ pipeline.out.EchoScore <= MaxScore

\* run_pipeline has returned a score that the sum of the modifiers alone
\* would have put above 100
C17_Witness ==
    /\ PipelineDone
    /\ ~pipeline.out.error
    /\ SumModifiers(pipeline.detector_results, NumDetectors) > MaxScore - BaseScore
            + NeutralSense * SenseInfluence
    /\ pipeline.out.EchoScore = MaxScore

(* C16: once the configuration file has been rewritten with new values and *)
(* reload_config has been called, a getter returns the values of the file. *)
C16_ReloadGivesNew ==
    config.reloaded /\ config.read /\ config.file.exists /\ config.file.valid
        => config.got = GetEchosenseWeights(config.file.data)

(* C18: two distinct inputs processed with the same hash function never    *)
(* get the same glyph_id.                                                  *)
C18_NoCollision ==
    Len(probe.ids) = 2 /\ probe.first # probe.second => probe.ids[1] # probe.ids[2]

(***************************************************************************)
(* C19. The pattern of a glyph id.                                         *)
(***************************************************************************)
UpperHex == Range(HexDigits)

\* ^GHX-[A-F0-9]{4}$
MatchesPattern(id) ==
    /\ Len(id) = 8
    /\ SubSeq(id, 1, 4) = <<"G", "H", "X", "-">>
    /\ \A k \in 5..8 : id[k] \in UpperHex

(* C19: every glyph id is GHX- followed by exactly four upper-case         *)
(* hexadecimal digits.                                                     *)
C19_GlyphIdPattern == \A k \in 1..Len(probe.ids) : MatchesPattern(probe.ids[k])

\* a glyph id with a padding zero and a digit above 9 has been produced
C19_Witness ==
    /\ Len(probe.ids) >= 1
    /\ probe.ids[1][5] = "0"
    /\ \E k \in 6..8 : probe.ids[1][k] \in {"A", "B", "C", "D", "E", "F"}

(***************************************************************************)
(* C20. The ancestry depth.                                                *)
(***************************************************************************)
Clamp10(depth) == Min(Max(depth, 1), 10)

ProbeNum == DepthNum(probe.first, probe.hash)

ProbeDen == DepthDen(probe.first, probe.hash)

(* C20 as stated: ancestry_depth is (char_diversity + hash_entropy) * 5    *)
(* rounded to the nearest integer and clamped to 1..10.                    *)
C20_DepthRounded ==
    probe.depth # 0 => probe.depth = Clamp10(RoundHalfEven(ProbeNum, ProbeDen))

(* C20 amended: ancestry_depth is (char_diversity + hash_entropy) * 5      *)
(* truncated to an integer and clamped to 1..10, each term being           *)
(* len(set(x))/len(x), or 0 for an empty string.                           *)
C20_DepthTruncated ==
    probe.depth # 0 => probe.depth = Clamp10(ProbeNum \div ProbeDen)

\* a depth has been computed, with a hash string, where rounding and
\* truncating differ
C20_Witness ==
    /\ probe.depth # 0
    /\ probe.hash # <<>>
    /\ Clamp10(RoundHalfEven(ProbeNum, ProbeDen)) # Clamp10(ProbeNum \div ProbeDen)

(***************************************************************************)
(* C21. The fold vector.                                                   *)
(***************************************************************************)
(* C21: for every input, the fold vector has exactly 16 entries and every  *)
(* entry lies in [0, 1].                                                   *)
C21_FoldVectorInRange ==
    probe.vector # <<>> =>
        /\ Len(probe.vector) = 16
        /\ \A i \in 1..16 : 0 <= probe.vector[i] /\ probe.vector[i] <= 10000

(***************************************************************************)
(* C22, C23. The drift matrix.                                             *)
(***************************************************************************)
MatrixRan == probe.matrix.status # ""

(* C22: for the empty input string the drift matrix returns status         *)
(* "Error - Empty input" and drift 0.0.                                    *)
C22_EmptyInputStatus ==
    MatrixRan /\ probe.first = <<>> =>
        probe.matrix.status = "Error - Empty input" /\ probe.matrix.delta_s = 0

C22_Witness == MatrixRan /\ probe.first = <<>>

(* C23: for all non-empty strings the global drift of the drift matrix is  *)
(* greater than or equal to 0.                                             *)
C23_DriftNonNegative ==
    MatrixRan /\ probe.first # <<>> => probe.matrix.delta_s >= 0

\* the matrix of a text whose digit sums go down has been computed, with a
\* positive drift
C23_Witness ==
    /\ MatrixRan
    /\ Len(probe.first) >= 2
    /\ probe.first[1] > probe.first[2]
    /\ probe.matrix.delta_s > 0

(***************************************************************************)
(* C24. Cosine similarity.                                                 *)
(***************************************************************************)
(* C24: cosine_similarity(a, b) equals cosine_similarity(b, a) for any two *)
(* vectors, also when their lengths differ or a norm is zero.              *)
C24_CosineSymmetric == probe.sims # <<>> => probe.sims[1] = probe.sims[2]

\* two different vectors of one length with a similarity strictly between
\* 0 and 1
C24_Witness ==
    /\ probe.sims # <<>>
    /\ probe.a # probe.b
    /\ Len(probe.a) = Len(probe.b)
    /\ probe.sims[1] > 0
    /\ probe.sims[1] < 1000

\* the two corner cases: lengths that differ, and a zero norm
C24_Corners ==
    /\ probe.sims # <<>>
    /\ \/ Len(probe.a) # Len(probe.b)
       \/ \A i \in 1..Len(probe.a) : probe.a[i] = 0

(***************************************************************************)
(* C25, C26. The vault under several threads.                              *)
(***************************************************************************)
(* C25: no two verify calls that returned, one after the other or at the   *)
(* same time, with or without a failed vault write, returned the same      *)
(* vault_ref.                                                              *)
C25_VaultRefsDistinct ==
    \A i, j \in Returned : i # j => results[i].vault_ref # results[j].vault_ref

(* C26: whenever no Vault.log call is in progress, log_attempts equals     *)
(* successful_logs + backup_writes + failed_logs.                          *)
NoLogInProgress == \A t \in Threads : th[t].pc = "idle"

C26_AttemptsAccounted ==
    NoLogInProgress => log_attempts = successful_logs + backup_writes + failed_logs

(***************************************************************************)
(* C27. The alert cooldown of the performance monitor.                     *)
(***************************************************************************)
(* C27: two alerts of one alert key are never less than alert_cooldown     *)
(* seconds apart, also when measurements are recorded by several threads.  *)
C27_AlertCooldown ==
    \A i, j \in 1..Len(monitor.alerts) :
        i < j /\ monitor.alerts[i].key = monitor.alerts[j].key
            => Abs(monitor.alerts[j].current_time - monitor.alerts[i].current_time)
                   >= AlertCooldown

(***************************************************************************)
(* C28. A load of the configuration that fails.                            *)
(***************************************************************************)
LoadFailed == config.pc = "idle" /\ config.failed

(* C28: when loading the configuration has failed, the configuration and   *)
(* last_modified are those from before the load, no change callback was    *)
(* called, and a getter returns the old values.                            *)
C28_FailedLoadKeepsConfig ==
    LoadFailed =>
        /\ config.config_data = config.before.config_data
        /\ config.last_modified = config.before.last_modified
        /\ ~config.notified
        /\ config.read => config.got = GetEchosenseWeights(config.before.config_data)

Verified == { i \in 1..Len(results) : Len(results[i].input \o SbshHash) > 0 }

DetectorRaised ==
    \E name \in DOMAIN pipeline.detector_results : Raises(pipeline.modules[name])

\* every other detector returned a dict that passed validation, and
\* run_echoverifier returned a result without an error
OthersSucceeded ==
    /\ \A name \in DOMAIN pipeline.detector_results :
           ~Raises(pipeline.modules[name]) => pipeline.detector_results[name].error = ""
    /\ pipeline.echoverifier.error = ""

VerdictDecisions == { "Authentic", "Plausible", "Questionable", "Synthetic" }

(* C30 as stated: if a detector raises while EchoVerifier and the other    *)
(* detectors succeed, run_pipeline returns a Decision computed from the    *)
(* EchoScore and the verdict of EchoVerifier, not "Error".                 *)
C30_DetectorFailureIsolated ==
    PipelineDone /\ DetectorRaised /\ OthersSucceeded =>
        pipeline.out.Decision \in VerdictDecisions

(* C30 amended: if a detector raises while EchoVerifier and the other      *)
(* detectors succeed, run_pipeline returns the Decision "Error"; unless    *)
(* the advisory flags raise, the result is not an error result and its     *)
(* EchoScore is the one computed from the other detectors and EchoVerifier.*)
C30_DetectorFailureGivesError ==
    PipelineDone /\ DetectorRaised /\ OthersSucceeded =>
        /\ pipeline.out.Decision = "Error"
        /\ ~FlagsRaise(pipeline.detector_results) =>
               /\ ~pipeline.out.error
               /\ pipeline.out.EchoScore =
                      CalculateEchoScore(pipeline.detector_results, pipeline.echoverifier)

\* run_pipeline has returned a scored result after one detector raised,
\* another returned its dict and EchoVerifier gave the verdict "Authentic"
C30_Witness ==
    /\ PipelineDone /\ DetectorRaised /\ OthersSucceeded
    /\ \E name \in DOMAIN pipeline.detector_results : ~Raises(pipeline.modules[name])
    /\ pipeline.echoverifier.verdict = "Authentic"
    /\ ~pipeline.out.error
    /\ pipeline.out.EchoScore >= AuthenticMin
====
